---------------------------- MODULE Spec2Model ----------------------------
(***************************************************************************)
(* Kernel of the Tab5 operating system: the Memory Manager                 *)
(* (framework/system/memory_manager.cpp), the Task Scheduler               *)
(* (framework/system/task_scheduler.cpp), the Event System                 *)
(* (framework/system/event_system.cpp) and the Application Manager         *)
(* (apps/app_manager.cpp) with the BaseApp lifecycle (apps/base_app.cpp).  *)
(*                                                                         *)
(* Each component has its own specifications (MemSpec, SchedSpec,          *)
(* EventSpec, QueueSpec, DrainSpec, AppSpec, AppUpdateSpec) over the       *)
(* shared variables; the variables of the                                  *)
(* other components stay as Init left them.  Variables that mirror a       *)
(* field of the code carry the field's name; variables whose name starts   *)
(* with g_ are history variables: they record what happened and are never  *)
(* read by an operation.                                                   *)
(***************************************************************************)
EXTENDS Integers, Sequences, FiniteSets, TLC

VARIABLES
    \* ---- MemoryManager (memory_manager.h:145-154) ----
    m_activeBlocks,       \* std::vector<MemoryBlock>: sequence of [ptr, size, inUse]
    m_totalAllocated,
    m_peakAllocated,
    m_allocationCount,
    m_deallocationCount,
    m_pools,              \* the four MemoryPool objects: [blockUsed, freeBlocks]
    heapUsed,             \* addresses the general heap has handed out and not got back
    g_outstanding,        \* allocations made and not yet successfully deallocated
    g_memCall             \* the last MemoryManager call, its arguments and its result

VARIABLES
    \* ---- the platform's millisecond clock ----
    now,                  \* millis(), a uint32_t (see U32Zero)
    idleSteps,            \* clock advances made between calls (bounded by MaxIdleSteps)
    \* ---- TaskScheduler (task_scheduler.h:170-182) ----
    m_tasks,              \* std::vector<Task>
    m_nextTaskId,
    m_totalExecutionTime,
    m_lastUpdateTime,
    m_cpuLoad,
    m_tasksExecuted,
    m_tasksOverrun,
    u_pc,                 \* position of TaskScheduler::update: "idle", "loop" or "crashed"
    u_idx,                \* position of the range-for of update in m_tasks
    u_currentTime,        \* update's locals currentTime and frameStartTime
    g_wait,               \* per task id: milliseconds still to elapse before its deadline
    g_oneShotRuns,        \* per task id: invocations of its callback, if it is a one-shot task
    g_passLog,            \* callbacks the pass in progress has invoked, in order:
                          \* [id, priority, period, runs before this one, early: deadline not yet come]
    g_passDue,            \* [id, priority] of the tasks READY and due when that pass started
    g_suspended,          \* per task id: the task is in the table, suspendTask returned
                          \* true for it and resumeTask has not returned true since
    g_cancelled           \* the task ids cancelTask returned true for

VARIABLES
    \* ---- EventSystem (event_system.h:206-219) ----
    m_listeners,          \* std::map<EventType, std::vector<EventListener>>: per type,
                          \* the sequence of [id, priority, oneShot, callCount]
    m_eventQueue,         \* std::queue<EventData>: sequence of [type, data]
    m_eventsPublished,
    m_eventsProcessed,
    m_listenersNotified,
    m_nextListenerId,
    p_pc,                 \* position of EventSystem::processEvents: "idle" or "drain";
                          \* "crashed" when a delivery has ended the program
    eventsProcessed,      \* the local eventsProcessed of processEvents
    g_calls,              \* per listener id: invocations of its callback
    g_notifyLog,          \* [id, priority, completed, unsubscribed] of the listeners the
                          \* last delivery invoked, in order; completed: the callback did
                          \* not throw; unsubscribed: unsubscribe had removed the listener
    g_delivered,          \* events the current (or the last) processEvents call delivered
    g_accepted,           \* events publishAsync accepted while processEvents is running
    g_evCall              \* the last EventSystem call and its result

VARIABLES
    \* ---- AppManager (apps/app_manager.h:189-201) ----
    m_initialized,
    m_appFactories,       \* std::map<std::string, AppFactory>: the ids that have a factory
    m_runningApps,        \* std::map<std::string, std::unique_ptr<BaseApp>>: per id held, the
                          \* BaseApp's [state, priority, memoryUsage, exitRequested]
    m_currentAppId,       \* an id, or NoAppId for the empty string
    m_maxConcurrentApps,
    m_totalLaunches,
    m_totalKills,
    m_lastCleanup,        \* a uint32_t (see U32Zero)
    a_pc,                 \* position of AppManager::update: "idle", "loop" or "crashed"
    a_it,                 \* the iterator of the range-for of update: an id, or NoAppId at end()
    g_appEvents,          \* events the last AppManager call published, in order: [type, app]
    g_updated,            \* ids whose update() the pass in progress (or the last) has called
    g_threw,              \* those of them whose update() threw
    g_refused,            \* [id, freed]: the id launchApp last refused as busy, and whether
                          \* killApp has removed an instance since
    g_appCall             \* the last AppManager call, its arguments and its result

VARIABLES
    \* ---- OSManager (os_manager.h) ----
    m_running,            \* set by OSManager::start
    k_pc,                 \* position of OSManager::update: "idle" (not in progress),
                          \* "scheduler", "events" or "apps" (the call it is in or at)
    g_tick                \* what the tick in progress (or the last) has done, in order

memVars == <<m_activeBlocks, m_totalAllocated, m_peakAllocated, m_allocationCount,
             m_deallocationCount, m_pools, heapUsed, g_outstanding, g_memCall>>

clockVars == <<now, idleSteps>>

osVars == <<m_running, k_pc, g_tick>>

schedVars == <<m_tasks, m_nextTaskId, m_totalExecutionTime, m_lastUpdateTime, m_cpuLoad,
               m_tasksExecuted, m_tasksOverrun, u_pc, u_idx, u_currentTime,
               g_wait, g_oneShotRuns, g_passLog, g_passDue, g_suspended, g_cancelled>>

evVars == <<m_listeners, m_eventQueue, m_eventsPublished, m_eventsProcessed,
            m_listenersNotified, m_nextListenerId, p_pc, eventsProcessed,
            g_calls, g_notifyLog, g_delivered, g_accepted, g_evCall>>

appVars == <<m_initialized, m_appFactories, m_runningApps, m_currentAppId,
             m_maxConcurrentApps, m_totalLaunches, m_totalKills, m_lastCleanup,
             a_pc, a_it, g_appEvents, g_updated, g_threw, g_refused, g_appCall>>

vars == <<memVars, clockVars, schedVars, evVars, appVars, osVars>>

(***************************************************************************)
(* Helpers                                                                 *)
(***************************************************************************)
Min(a, b) == IF a <= b THEN a ELSE b

Max(a, b) == IF a >= b THEN a ELSE b

Range(s) == {s[i] : i \in 1..Len(s)}

RECURSIVE SumSizes(_)
SumSizes(S) ==
    IF S = {} THEN 0
    ELSE LET x == CHOOSE y \in S : TRUE IN x.size + SumSizes(S \ {x})

\* s with its element at position i removed (std::vector::erase(it))
RemoveAt(s, i) == SubSeq(s, 1, i - 1) \o SubSeq(s, i + 1, Len(s))

(***************************************************************************)
(* OSManager::update, the kernel tick                                      *)
(*                                                                         *)
(* The tick calls TaskScheduler::update, EventSystem::processEvents and    *)
(* AppManager::update one after the other (the HAL, UI and service         *)
(* managers it also calls are not part of this model).  The steps of       *)
(* these three calls are the actions of their components; while a tick is  *)
(* in progress they tell OSManager::update what they did.                  *)
(***************************************************************************)
\* A tick that updates the applications right after the scheduler
KernelAfter_appsFirst(pc, what) ==
    CASE what = "pass" -> "apps"
      [] what = "drain" -> "events"
      [] what = "done" -> "idle"
      [] OTHER -> pc

\* OSManager::update, lines 100-124: the call that follows when TaskScheduler::update
\* ("pass"), processEvents ("drain") or AppManager::update ("done") has returned
KernelAfter(pc, what) ==
    CASE what = "pass" -> "events"
      [] what = "drain" -> "apps"
      [] what = "done" -> "idle"
      [] OTHER -> pc

\* a step of a call made by the tick has done the things happened, in this order
Kernel(happened) ==
    IF k_pc = "idle" \/ happened = <<>>
    THEN UNCHANGED osVars
    ELSE /\ g_tick' = g_tick \o happened
         /\ k_pc' = KernelAfter(k_pc, happened[Len(happened)])
         /\ UNCHANGED m_running

(***************************************************************************)
(* Memory Manager                                                          *)
(***************************************************************************)
\* Bounds of the exploration
MaxPoolBlocks == 1      \* blocks explored per pool (the pools hold 64/32/16/8)
MaxHeapBlocks == 2      \* distinct addresses the general heap can hand out
MaxAllocs == 4          \* allocate calls that succeed in one behaviour

NumPools == 4

\* MemoryManager::initialize: the pools' block sizes and block counts
PoolBlockSize == <<16, 64, 256, 1024>>

PoolBlockCount == <<64, 32, 16, 8>>

\* MemoryPool::m_totalBlocks, cut to the blocks explored
TotalBlocks(p) == Min(PoolBlockCount[p], MaxPoolBlocks)

\* Sizes a caller asks for: 0, one that fits the 16-byte pool, one that needs
\* the 256-byte pool, one above the 1024-byte limit of the pools.
AllocSizes == {0, 10, 100, 2000}

\* A pointer: a block of a pool (pool in 1..4, idx its block index, from 1) or an
\* address of the general heap (pool = 0, idx in 1..MaxHeapBlocks); idx = 0 is nullptr.
NULL == [pool |-> 0, idx |-> 0]

PoolPtr(p, i) == [pool |-> p, idx |-> i]

HeapPtr(a) == [pool |-> 0, idx |-> a]

Pointers ==
    {NULL} \cup {HeapPtr(a) : a \in 1..MaxHeapBlocks}
           \cup UNION {{PoolPtr(p, i) : i \in 1..TotalBlocks(p)} : p \in 1..NumPools}

\* MemoryPool::MemoryPool
NewPool(p) == [blockUsed |-> [i \in 1..TotalBlocks(p) |-> FALSE],
               freeBlocks |-> TotalBlocks(p)]

\* MemoryPool::allocate: the index of the first free block, 0 when there is none
PoolFirstFree(pool) ==
    IF pool.freeBlocks = 0 \/ \A i \in DOMAIN pool.blockUsed : pool.blockUsed[i]
    THEN 0
    ELSE CHOOSE i \in DOMAIN pool.blockUsed :
            /\ ~pool.blockUsed[i]
            /\ \A j \in DOMAIN pool.blockUsed : j < i => pool.blockUsed[j]

PoolTake(pool, i) == [blockUsed |-> [pool.blockUsed EXCEPT ![i] = TRUE],
                      freeBlocks |-> pool.freeBlocks - 1]

\* MemoryPool::deallocate(ptr) on pool number p: whether it succeeds
PoolOwnsUsed(pools, p, ptr) ==
    /\ ptr # NULL
    /\ ptr.pool = p
    /\ ptr.idx \in DOMAIN pools[p].blockUsed
    /\ pools[p].blockUsed[ptr.idx]

PoolGive(pool, i) == [blockUsed |-> [pool.blockUsed EXCEPT ![i] = FALSE],
                      freeBlocks |-> pool.freeBlocks + 1]

\* An allocate that takes the largest pool that serves the request
PickPool_largest(pools, size) ==
    IF size > 1024 THEN 0
    ELSE LET ok == {p \in 1..NumPools :
                        size <= PoolBlockSize[p] /\ pools[p].freeBlocks > 0
                        /\ PoolFirstFree(pools[p]) # 0}
         IN IF ok = {} THEN 0 ELSE CHOOSE p \in ok : \A q \in ok : p >= q

\* MemoryManager::allocate, lines 113-123: the pool the block is taken from,
\* 0 when no pool serves the request
PickPool(pools, size) ==
    IF size > 1024 THEN 0
    ELSE LET ok == {p \in 1..NumPools :
                        size <= PoolBlockSize[p] /\ pools[p].freeBlocks > 0
                        /\ PoolFirstFree(pools[p]) # 0}
         IN IF ok = {} THEN 0 ELSE CHOOSE p \in ok : \A q \in ok : p <= q

\* MemoryManager::findBlock: the position of the first block with this address, 0 for end()
findBlock(blocks, ptr) ==
    IF \E i \in 1..Len(blocks) : blocks[i].ptr = ptr
    THEN CHOOSE i \in 1..Len(blocks) :
            /\ blocks[i].ptr = ptr
            /\ \A j \in 1..(i - 1) : blocks[j].ptr # ptr
    ELSE 0

\* MemoryManager::checkLeaks
checkLeaks == Cardinality({i \in 1..Len(m_activeBlocks) : m_activeBlocks[i].inUse})

getTotalAllocated == m_totalAllocated

\* The tracking part of allocate (lines 130-146) for a non-null ptr
TrackAllocation(ptr, size) ==
    /\ m_activeBlocks' = Append(m_activeBlocks, [ptr |-> ptr, size |-> size, inUse |-> TRUE])
    /\ m_totalAllocated' = m_totalAllocated + size
    /\ m_allocationCount' = m_allocationCount + 1
    /\ m_peakAllocated' = Max(m_peakAllocated, m_totalAllocated + size)
    /\ g_outstanding' = g_outstanding \cup
                          {[n |-> m_allocationCount + 1, ptr |-> ptr, size |-> size]}
    /\ g_memCall' = [op |-> "allocate", size |-> size, ptr |-> ptr, ret |-> TRUE]

\* A failed call that still counts itself as an allocation
AllocateFails_counts(size) ==
    /\ g_memCall' = [op |-> "allocate", size |-> size, ptr |-> NULL, ret |-> FALSE]
    /\ m_allocationCount' = m_allocationCount + 1
    /\ UNCHANGED <<m_activeBlocks, m_totalAllocated, m_peakAllocated,
                   m_deallocationCount, m_pools, heapUsed, g_outstanding>>

\* MemoryManager::allocate, lines 107-109 and 152-156: the null result
AllocateFails(size) ==
    /\ g_memCall' = [op |-> "allocate", size |-> size, ptr |-> NULL, ret |-> FALSE]
    /\ UNCHANGED <<m_activeBlocks, m_totalAllocated, m_peakAllocated, m_allocationCount,
                   m_deallocationCount, m_pools, heapUsed, g_outstanding>>

\* MemoryManager::allocate(size)
allocate(size) ==
    /\ m_allocationCount < MaxAllocs
    /\ IF size = 0
       THEN AllocateFails(size)
       ELSE LET p == PickPool(m_pools, size) IN
            IF p # 0
            THEN LET i == PoolFirstFree(m_pools[p]) IN
                 /\ m_pools' = [m_pools EXCEPT ![p] = PoolTake(m_pools[p], i)]
                 /\ TrackAllocation(PoolPtr(p, i), size)
                 /\ UNCHANGED <<heapUsed, m_deallocationCount>>
            ELSE \* heap_caps_malloc: any free address, or failure
                 \/ \E a \in (1..MaxHeapBlocks) \ heapUsed :
                        /\ heapUsed' = heapUsed \cup {a}
                        /\ TrackAllocation(HeapPtr(a), size)
                        /\ UNCHANGED <<m_pools, m_deallocationCount>>
                 \/ AllocateFails(size)

\* The ghost record of the allocation that a successful deallocate(ptr) ends
EndedAllocation(ptr) ==
    LET mine == {o \in g_outstanding : o.ptr = ptr}
    IN IF mine = {} THEN {} ELSE {CHOOSE o \in mine : \A q \in mine : o.n <= q.n}

\* A rejected call that still counts itself as a deallocation
DeallocateFails_counts(ptr) ==
    /\ g_memCall' = [op |-> "deallocate", size |-> 0, ptr |-> ptr, ret |-> FALSE]
    /\ m_deallocationCount' = m_deallocationCount + 1
    /\ UNCHANGED <<m_activeBlocks, m_totalAllocated, m_peakAllocated, m_allocationCount,
                   m_pools, heapUsed, g_outstanding>>

\* MemoryManager::deallocate, lines 160-168: the early returns
DeallocateFails(ptr) ==
    /\ g_memCall' = [op |-> "deallocate", size |-> 0, ptr |-> ptr, ret |-> FALSE]
    /\ UNCHANGED <<m_activeBlocks, m_totalAllocated, m_peakAllocated, m_allocationCount,
                   m_deallocationCount, m_pools, heapUsed, g_outstanding>>

\* A deallocate that forgets to give the bytes back
TotalAfterFree_keeps(total, size) == total

\* MemoryManager::deallocate, line 187
TotalAfterFree(total, size) == total - size

\* MemoryManager::deallocate, lines 160-168: whether the call is rejected
DeallocateRejects(ptr) == ptr = NULL \/ findBlock(m_activeBlocks, ptr) = 0

\* MemoryManager::deallocate(ptr)
deallocate(ptr) ==
    IF DeallocateRejects(ptr)
    THEN DeallocateFails(ptr)
    ELSE LET it == findBlock(m_activeBlocks, ptr)
             size == m_activeBlocks[it].size
             owners == {p \in 1..NumPools : PoolOwnsUsed(m_pools, p, ptr)}
         IN /\ IF owners # {}
               THEN LET p == CHOOSE q \in owners : \A r \in owners : q <= r IN
                    /\ m_pools' = [m_pools EXCEPT ![p] = PoolGive(m_pools[p], ptr.idx)]
                    /\ UNCHANGED heapUsed
               ELSE \* heap_caps_free
                    /\ heapUsed' = IF ptr.pool = 0 THEN heapUsed \ {ptr.idx} ELSE heapUsed
                    /\ UNCHANGED m_pools
            /\ m_totalAllocated' = TotalAfterFree(m_totalAllocated, size)
            /\ m_deallocationCount' = m_deallocationCount + 1
            /\ m_activeBlocks' = RemoveAt(m_activeBlocks, it)
            /\ g_outstanding' = g_outstanding \ EndedAllocation(ptr)
            /\ g_memCall' = [op |-> "deallocate", size |-> size, ptr |-> ptr, ret |-> TRUE]
            /\ UNCHANGED <<m_peakAllocated, m_allocationCount>>

\* MemoryManager::deallocate, line 181, reached with the address of a pool block that
\* is tracked and marked free: heap_caps_free of an address inside the memory of a
\* pool.  The heap either takes it without a sign (deallocate above) or stops the
\* program.
DeallocateCorruptsHeap(ptr) ==
    /\ ~DeallocateRejects(ptr)
    /\ ptr.pool # 0
    /\ ~PoolOwnsUsed(m_pools, ptr.pool, ptr)
    /\ g_memCall' = [op |-> "crashed", size |-> 0, ptr |-> ptr, ret |-> FALSE]
    /\ UNCHANGED <<m_activeBlocks, m_totalAllocated, m_peakAllocated, m_allocationCount,
                   m_deallocationCount, m_pools, heapUsed, g_outstanding>>

\* the pool numbers a caller passes: the four pools (0..3) and one that is none
PoolIndexes == 0..NumPools

\* MemoryManager::allocateFromPool(poolIndex): a block of the pool, not entered in
\* m_activeBlocks, or nullptr
allocateFromPool(poolIndex) ==
    LET p == poolIndex + 1
        i == IF poolIndex >= NumPools THEN 0 ELSE PoolFirstFree(m_pools[p])
    IN  /\ m_pools' = IF i = 0 THEN m_pools ELSE [m_pools EXCEPT ![p] = PoolTake(m_pools[p], i)]
        /\ g_memCall' = [op |-> "allocateFromPool", size |-> 0,
                         ptr |-> IF i = 0 THEN NULL ELSE PoolPtr(p, i), ret |-> i # 0]
        /\ UNCHANGED <<m_activeBlocks, m_totalAllocated, m_peakAllocated, m_allocationCount,
                       m_deallocationCount, heapUsed, g_outstanding>>

\* MemoryManager::deallocateFromPool(ptr, poolIndex): MemoryPool::deallocate of the
\* pool, whatever m_activeBlocks holds
deallocateFromPool(ptr, poolIndex) ==
    LET p == poolIndex + 1
        ok == poolIndex < NumPools /\ PoolOwnsUsed(m_pools, p, ptr)
    IN  /\ m_pools' = IF ok THEN [m_pools EXCEPT ![p] = PoolGive(m_pools[p], ptr.idx)]
                      ELSE m_pools
        /\ g_memCall' = [op |-> "deallocateFromPool", size |-> 0, ptr |-> ptr, ret |-> ok]
        /\ UNCHANGED <<m_activeBlocks, m_totalAllocated, m_peakAllocated, m_allocationCount,
                       m_deallocationCount, heapUsed, g_outstanding>>

(***************************************************************************)
(* 32-bit unsigned integers                                                *)
(*                                                                         *)
(* millis() and the deadlines computed from it are uint32_t and wrap at    *)
(* 2^32.  The model checker's integers end at 2^31 - 1, so a uint32_t      *)
(* value u is kept as the integer u - 2^31: the order of the kept values   *)
(* is the unsigned order, 0 is kept as U32Zero and 2^32 - 1 as U32Top.     *)
(* Durations, delays and periods are small and are kept as they are.       *)
(***************************************************************************)
U32Zero == -2147483647 - 1

U32Top == 2147483647

\* uint32_t t + d (mod 2^32) for a kept value t and 0 <= d < 2^31
U32Plus(t, d) ==
    IF t < 0 THEN t + d
    ELSE IF d <= U32Top - t THEN t + d
    ELSE U32Zero + ((d - (U32Top - t)) - 1)

\* uint32_t a - b (mod 2^32) for kept values a and b, as a plain number; a
\* difference of 2^31 or more is reported as 2^31 - 1
U32Since(a, b) ==
    IF a >= b
    THEN IF b >= 0 \/ a < 0 THEN a - b
         ELSE IF a < b - U32Zero THEN ((U32Top - (b - U32Zero)) + a) + 1 ELSE U32Top
    ELSE IF a < 0 /\ b >= 0 /\ (a - U32Zero) < b
         THEN ((U32Top - b) + (a - U32Zero)) + 1
         ELSE U32Top

\* A pause between two calls: 100 ms, or 2^31 - 1 ms (24.8 days)
IdleTimes == {100, U32Top}

MaxIdleSteps == 2

\* Time passes while no kernel call is in progress
Tick ==
    /\ u_pc = "idle"
    /\ idleSteps < MaxIdleSteps
    /\ \E d \in IdleTimes :
          /\ now' = U32Plus(now, d)
          /\ g_wait' = [id \in DOMAIN g_wait |-> Max(0, g_wait[id] - d)]
    /\ idleSteps' = idleSteps + 1
    /\ UNCHANGED <<memVars, osVars, appVars, evVars, m_tasks, m_nextTaskId, m_totalExecutionTime, m_lastUpdateTime,
                   m_cpuLoad, m_tasksExecuted, m_tasksOverrun, u_pc, u_idx, u_currentTime,
                   g_oneShotRuns, g_passLog, g_passDue, g_suspended, g_cancelled>>

(***************************************************************************)
(* Task Scheduler                                                          *)
(***************************************************************************)
MaxTaskIds == 2         \* tasks scheduled in one behaviour
MaxRuns == 2            \* executions of one task in one behaviour

OS_MAX_TASKS == 32

m_defaultMaxRunTime == 50

FrameBudget == 16

CpuWindow == 1000

\* Inputs of the schedule calls
Priorities == {1, 3}

Delays == {0, 100}

Periods == {0, 100}

\* How long a callback runs: no time, or beyond the frame budget and its own limit
CallbackDurations == {0, 60}

TaskIds == 1..MaxTaskIds

\* The comparator of update's std::sort turned round (lowest priority first)
TaskBefore_ascending(a, b) ==
    IF a.priority # b.priority THEN a.priority < b.priority
    ELSE a.nextExecution < b.nextExecution

\* TaskScheduler::update, lines 50-56: the comparator of std::sort
TaskBefore(a, b) ==
    IF a.priority # b.priority THEN a.priority > b.priority
    ELSE a.nextExecution < b.nextExecution

Perms(n) == {f \in [1..n -> 1..n] : \A i, j \in 1..n : i # j => f[i] # f[j]}

\* std::sort on the task table: every arrangement in which no later element
\* comes before an earlier one (the order of equivalent elements is unspecified)
SortTasks(s) ==
    {[i \in 1..Len(s) |-> s[f[i]]] :
        f \in {g \in Perms(Len(s)) :
                 \A i, j \in 1..Len(s) : i < j => ~TaskBefore(s[g[j]], s[g[i]])}}

\* TaskScheduler::findTask: position of the task with this id, 0 for end()
findTask(tasks, taskId) ==
    IF \E i \in 1..Len(tasks) : tasks[i].id = taskId
    THEN CHOOSE i \in 1..Len(tasks) : tasks[i].id = taskId
    ELSE 0

\* The Task that scheduleOnce (period = 0) and schedulePeriodic build
NewTask(id, priority, delay, period) ==
    [id |-> id, priority |-> priority, state |-> "READY",
     nextExecution |-> U32Plus(now, delay), period |-> period,
     maxRunTime |-> m_defaultMaxRunTime, actualRunTime |-> 0, executionCount |-> 0,
     autoDelete |-> (period = 0)]

ScheduleFails == UNCHANGED <<m_tasks, m_nextTaskId, g_wait>>

\* TaskScheduler::generateTaskId: ++m_nextTaskId of a uint32_t. The counter is kept as
\* the signed number with the same 32 bits (2^31 .. 2^32 - 1 are -2^31 .. -1), so
\* that 4294967295 + 1 is 0
generateTaskId(nextTaskId) ==
    IF nextTaskId = 2147483647 THEN -2147483647 - 1 ELSE nextTaskId + 1

ScheduleAdds(priority, delay, period) ==
    LET id == generateTaskId(m_nextTaskId) IN
    /\ m_nextTaskId' = id
    /\ m_tasks' = Append(m_tasks, NewTask(id, priority, delay, period))
    /\ g_wait' = [g_wait EXCEPT ![id] = delay]

SchedFrame ==
    UNCHANGED <<memVars, osVars, appVars, evVars, clockVars, m_totalExecutionTime, m_lastUpdateTime, m_cpuLoad,
                m_tasksExecuted, m_tasksOverrun, u_pc, u_idx, u_currentTime,
                g_oneShotRuns, g_passLog, g_passDue>>

\* TaskScheduler::scheduleOnce(function, priority, delay)
scheduleOnce(hasFunction, priority, delay) ==
    /\ u_pc = "idle"
    /\ IF ~hasFunction \/ Len(m_tasks) >= OS_MAX_TASKS
       THEN ScheduleFails
       ELSE ScheduleAdds(priority, delay, 0)
    /\ UNCHANGED <<g_suspended, g_cancelled>>
    /\ SchedFrame

\* TaskScheduler::schedulePeriodic(function, period, priority, delay)
schedulePeriodic(hasFunction, period, priority, delay) ==
    /\ u_pc = "idle"
    /\ IF ~hasFunction \/ period = 0 \/ Len(m_tasks) >= OS_MAX_TASKS
       THEN ScheduleFails
       ELSE ScheduleAdds(priority, delay, period)
    /\ UNCHANGED <<g_suspended, g_cancelled>>
    /\ SchedFrame

cancelTask_keeps(taskId) ==
    /\ u_pc = "idle"
    /\ g_cancelled' = IF findTask(m_tasks, taskId) # 0 THEN g_cancelled \cup {taskId}
                      ELSE g_cancelled
    /\ UNCHANGED <<m_tasks, m_nextTaskId, g_wait, g_suspended>>
    /\ SchedFrame

\* TaskScheduler::cancelTask(taskId)
cancelTask(taskId) ==
    /\ u_pc = "idle"
    /\ LET it == findTask(m_tasks, taskId) IN
       IF it # 0
       THEN /\ m_tasks' = RemoveAt(m_tasks, it)
            /\ g_wait' = [g_wait EXCEPT ![taskId] = 0]
            /\ g_suspended' = [g_suspended EXCEPT ![taskId] = FALSE]
            /\ g_cancelled' = g_cancelled \cup {taskId}
       ELSE UNCHANGED <<m_tasks, g_wait, g_suspended, g_cancelled>>
    /\ UNCHANGED m_nextTaskId
    /\ SchedFrame

\* TaskScheduler::suspendTask(taskId) on the table tasks: the table it leaves
Suspended(tasks, taskId) ==
    LET it == findTask(tasks, taskId) IN
    IF it # 0 /\ tasks[it].state # "SUSPENDED"
    THEN [tasks EXCEPT ![it].state = "SUSPENDED"]
    ELSE tasks

\* TaskScheduler::suspendTask(taskId); it returns true when it changed the task
suspendTask(taskId) ==
    /\ u_pc = "idle"
    /\ m_tasks' = Suspended(m_tasks, taskId)
    /\ g_suspended' = [g_suspended EXCEPT ![taskId] = @ \/ m_tasks' # m_tasks]
    /\ UNCHANGED <<m_nextTaskId, g_wait, g_cancelled>>
    /\ SchedFrame

\* TaskScheduler::resumeTask(taskId)
resumeTask(taskId) ==
    /\ u_pc = "idle"
    /\ LET it == findTask(m_tasks, taskId) IN
       IF it # 0 /\ m_tasks[it].state = "SUSPENDED"
       THEN /\ m_tasks' = [m_tasks EXCEPT ![it].state = "READY"]
            /\ g_suspended' = [g_suspended EXCEPT ![taskId] = FALSE]
       ELSE UNCHANGED <<m_tasks, g_suspended>>
    /\ UNCHANGED <<m_nextTaskId, g_wait, g_cancelled>>
    /\ SchedFrame

\* TaskScheduler::update, line 60: the test that lets a task run in this pass
IsDue(task, currentTime) == task.state = "READY" /\ currentTime >= task.nextExecution

\* TaskScheduler::executeTask, lines 226-248: the task after its callback returned at
\* endTime, having run for executionTime
ExecutedTask(task, endTime, executionTime) ==
    [task EXCEPT !.actualRunTime = @ + executionTime,
                 !.executionCount = @ + 1,
                 !.nextExecution = IF task.period > 0 THEN U32Plus(endTime, task.period) ELSE @,
                 !.state = IF task.period > 0 THEN "READY" ELSE "COMPLETED"]

\* executeTask without its catch block: the callback's exception leaves the function
\* before the bookkeeping, the task stays RUNNING
AfterCallback_uncaught(task, throws, endTime, executionTime) ==
    IF throws THEN task ELSE ExecutedTask(task, endTime, executionTime)

\* TaskScheduler::executeTask, lines 218-248: the task after its callback returned or
\* threw; catch (...) only logs, and the bookkeeping follows in both cases
AfterCallback(task, throws, endTime, executionTime) ==
    ExecutedTask(task, endTime, executionTime)

\* TaskScheduler::cleanupTasks
cleanupTasks(tasks) ==
    SelectSeq(tasks, LAMBDA t : ~(t.state = "COMPLETED" /\ t.autoDelete))

\* TaskScheduler::updateCPULoad at clock value t, after total milliseconds of callbacks
updateCPULoad(t, total) ==
    LET elapsed == U32Since(t, m_lastUpdateTime) IN
    IF elapsed >= CpuWindow
    THEN /\ m_cpuLoad' = Min(100, ((total * 100) \div elapsed) % 256)
         /\ m_totalExecutionTime' = 0
         /\ m_lastUpdateTime' = t
    ELSE /\ m_totalExecutionTime' = total
         /\ UNCHANGED <<m_cpuLoad, m_lastUpdateTime>>

\* TaskScheduler::update, lines 41-56: the pass starts and sorts the table
UpdateBegin ==
    /\ u_pc = "idle"
    /\ \A i \in 1..Len(m_tasks) : m_tasks[i].executionCount < MaxRuns
    /\ u_currentTime' = now
    /\ m_tasks' \in SortTasks(m_tasks)
    /\ u_pc' = "loop"
    /\ u_idx' = 1
    /\ g_passLog' = <<>>
    /\ g_passDue' = {[id |-> m_tasks[i].id, priority |-> m_tasks[i].priority] :
                        i \in {j \in 1..Len(m_tasks) : IsDue(m_tasks[j], now)}}
    /\ UNCHANGED <<memVars, osVars, appVars, evVars, clockVars, m_nextTaskId, m_totalExecutionTime, m_lastUpdateTime,
                   m_cpuLoad, m_tasksExecuted, m_tasksOverrun, g_wait, g_oneShotRuns,
                   g_suspended, g_cancelled>>

\* TaskScheduler::update, line 59: the end() the range-for took when it began, as a
\* position; the entries of g_passLog keep it. Callbacks of the pass may have pushed
\* tasks behind it and erased tasks before it; the slots from Len(m_tasks) + 1 to
\* PassEnd hold no task any more.
PassEnd == IF g_passLog = <<>> THEN Len(m_tasks) ELSE g_passLog[1].end

\* The positions from u_idx on whose task the loop of update would execute
DuePositions ==
    {j \in u_idx..Min(PassEnd, Len(m_tasks)) : IsDue(m_tasks[j], u_currentTime)}

\* What a task's callback does with the scheduler while it runs: nothing, or one
\* call of suspendTask
NoCall == [op |-> "none", id |-> 0]

CallbackCalls == {NoCall} \cup {[op |-> "suspendTask", id |-> id] : id \in TaskIds}

\* ... or one call of cancelTask, scheduleOnce or schedulePeriodic (of a task of
\* priority 1 without delay)
CancellingCalls ==
    {NoCall} \cup {[op |-> "cancelTask", id |-> id] : id \in TaskIds}
             \cup {[op |-> "scheduleOnce", id |-> 0], [op |-> "schedulePeriodic", id |-> 0]}

\* the table after the call a callback makes (suspendTask 150-160, cancelTask
\* 138-148, scheduleOnce 80-107, schedulePeriodic 109-136)
Called(tasks, call) ==
    CASE call.op = "suspendTask" -> Suspended(tasks, call.id)
      [] call.op = "cancelTask" ->
            IF findTask(tasks, call.id) # 0 THEN RemoveAt(tasks, findTask(tasks, call.id))
            ELSE tasks
      [] call.op \in {"scheduleOnce", "schedulePeriodic"} ->
            IF Len(tasks) >= OS_MAX_TASKS THEN tasks
            ELSE Append(tasks, NewTask(generateTaskId(m_nextTaskId), 1, 0,
                                       IF call.op = "scheduleOnce" THEN 0 ELSE 100))
      [] OTHER -> tasks

OverBudget_never(frameTime) == FALSE

\* TaskScheduler::update, lines 64-68
OverBudget(frameTime) == frameTime > FrameBudget

\* A loop that looks at the task it has executed once more
NextPosition_again(j) == j

\* TaskScheduler::update, line 59: the range-for goes on to the next element
NextPosition(j) == j + 1

\* TaskScheduler::update, lines 59-69: the loop runs on to the next task that is READY
\* and due, executes it (executeTask, lines 210-257: the task is RUNNING while its
\* callback runs; the callback takes d ms, makes one of the calls and may throw) and
\* leaves the loop when the frame budget is spent.  executeTask holds a reference to
\* the element at position j of m_tasks: after the callback has erased an element at
\* or before j, lines 226-248 write to the task that has moved to position j, or to
\* the slot behind the last task, which changes no task.  A task the callback pushes
\* stays in the storage initialize reserved, behind the end() of the range-for.
executeStep(calls) ==
    /\ u_pc = "loop"
    /\ DuePositions # {}
    /\ \E d \in CallbackDurations, throws \in BOOLEAN, call \in calls :
         LET j == CHOOSE k \in DuePositions : \A l \in DuePositions : k <= l
             task == m_tasks[j]
             startTime == now
             running == [m_tasks EXCEPT ![j].state = "RUNNING"]
             called == Called(running, call)
             endTime == U32Plus(now, d)
             executionTime == U32Since(endTime, startTime)
             frameTime == U32Since(endTime, u_currentTime)
         IN /\ now' = endTime
            /\ m_tasks' = IF j <= Len(called)
                          THEN [called EXCEPT ![j] = AfterCallback(called[j], throws, endTime,
                                                                  executionTime)]
                          ELSE called
            /\ m_nextTaskId' = IF Len(called) > Len(running)
                               THEN generateTaskId(m_nextTaskId) ELSE m_nextTaskId
            /\ g_suspended' = IF call.op = "suspendTask" /\ called # running
                              THEN [g_suspended EXCEPT ![call.id] = TRUE]
                              ELSE IF Len(called) < Len(running)
                              THEN [g_suspended EXCEPT ![call.id] = FALSE]
                              ELSE g_suspended
            /\ g_cancelled' = IF Len(called) < Len(running)
                              THEN g_cancelled \cup {call.id} ELSE g_cancelled
            /\ m_tasksExecuted' = IF throws THEN m_tasksExecuted ELSE m_tasksExecuted + 1
            /\ m_tasksOverrun' = IF executionTime > task.maxRunTime
                                 THEN m_tasksOverrun + 1 ELSE m_tasksOverrun
            /\ m_totalExecutionTime' = m_totalExecutionTime + executionTime
            /\ u_idx' = IF OverBudget(frameTime) THEN OS_MAX_TASKS + 1 ELSE NextPosition(j)
            /\ g_oneShotRuns' = IF task.period = 0
                                THEN [g_oneShotRuns EXCEPT ![task.id] = @ + 1]
                                ELSE g_oneShotRuns
            /\ g_passLog' = Append(g_passLog, [id |-> task.id, priority |-> task.priority,
                                               period |-> task.period,
                                               runs |-> task.executionCount,
                                               early |-> g_wait[task.id] > 0,
                                               threw |-> throws,
                                               end |-> PassEnd])
            /\ g_wait' = [id \in DOMAIN g_wait |->
                            IF Len(called) < Len(running) /\ id = call.id THEN 0
                            ELSE IF id = task.id
                            THEN Max(0, task.period - d)
                            ELSE Max(0, g_wait[id] - d)]
    /\ Kernel(<<"task">>)
    /\ UNCHANGED <<memVars, appVars, evVars, idleSteps, m_lastUpdateTime, m_cpuLoad, u_pc,
                   u_currentTime, g_passDue>>

\* the callbacks make no call of the scheduler
UpdateStep == executeStep({NoCall})

\* the callbacks may suspend a task, their own or another
ReentrantUpdateStep == executeStep(CallbackCalls)

\* the callbacks may cancel a task, their own or another, or schedule one
CancellingUpdateStep ==
    executeStep(IF m_nextTaskId < MaxTaskIds THEN CancellingCalls
                ELSE {c \in CancellingCalls : c.op \in {"none", "cancelTask"}})

\* TaskScheduler::update, lines 59-61, with the loop at a slot behind the last task,
\* left there by an erase: the loop reads the remains of a destroyed Task.  Either
\* nothing comes of it (the step is UpdateEnd), or the call through the destroyed
\* std::function ends the program.
UpdatePastEnd ==
    /\ u_pc = "loop"
    /\ DuePositions = {}
    /\ u_idx <= PassEnd
    /\ PassEnd > Len(m_tasks)
    /\ u_pc' = "crashed"
    /\ UNCHANGED <<m_tasks, m_nextTaskId, m_totalExecutionTime, m_lastUpdateTime, m_cpuLoad,
                   m_tasksExecuted, m_tasksOverrun, u_idx, u_currentTime,
                   g_wait, g_oneShotRuns, g_passLog, g_passDue, g_suspended, g_cancelled>>
    /\ UNCHANGED <<memVars, osVars, appVars, evVars, clockVars>>

\* TaskScheduler::update, lines 71-77: the loop is over (no task left to execute, or
\* the break); cleanupTasks and updateCPULoad run and update returns
UpdateEnd ==
    /\ u_pc = "loop"
    /\ DuePositions = {}
    /\ m_tasks' = cleanupTasks(m_tasks)
    /\ g_suspended' = [id \in TaskIds |->
                          g_suspended[id] /\ findTask(cleanupTasks(m_tasks), id) # 0]
    /\ updateCPULoad(now, m_totalExecutionTime)
    /\ u_pc' = "idle"
    /\ u_idx' = 0
    /\ g_passLog' = <<>>
    /\ g_passDue' = {}
    /\ Kernel(<<"pass">>)
    /\ UNCHANGED <<memVars, appVars, evVars, clockVars, m_nextTaskId, m_tasksExecuted, m_tasksOverrun,
                   u_currentTime, g_wait, g_oneShotRuns, g_cancelled>>

SchedInit ==
    /\ now = U32Zero
    /\ idleSteps = 0
    /\ m_tasks = <<>>
    /\ m_nextTaskId = 0
    /\ m_totalExecutionTime = 0
    /\ m_lastUpdateTime = U32Zero
    /\ m_cpuLoad = 0
    /\ m_tasksExecuted = 0
    /\ m_tasksOverrun = 0
    /\ u_pc = "idle"
    /\ u_idx = 0
    /\ u_currentTime = U32Zero
    /\ g_wait = [id \in TaskIds |-> 0]
    /\ g_oneShotRuns = [id \in TaskIds |-> 0]
    /\ g_passLog = <<>>
    /\ g_passDue = {}
    /\ g_suspended = [id \in TaskIds |-> FALSE]
    /\ g_cancelled = {}

ScheduleOnce ==
    /\ m_nextTaskId < MaxTaskIds
    /\ \E hasFunction \in BOOLEAN, priority \in Priorities, delay \in Delays :
           scheduleOnce(hasFunction, priority, delay)

SchedulePeriodic ==
    /\ m_nextTaskId < MaxTaskIds
    /\ \E hasFunction \in BOOLEAN, period \in Periods, priority \in Priorities,
          delay \in Delays :
           schedulePeriodic(hasFunction, period, priority, delay)

\* the tasks of ReentrantSpec have a callback and no delay
ReentrantScheduleOnce ==
    /\ m_nextTaskId < MaxTaskIds
    /\ \E priority \in Priorities : scheduleOnce(TRUE, priority, 0)

ReentrantSchedulePeriodic ==
    /\ m_nextTaskId < MaxTaskIds
    /\ \E priority \in Priorities : schedulePeriodic(TRUE, 100, priority, 0)

CancelTask == \E taskId \in TaskIds : cancelTask(taskId)

SuspendTask == \E taskId \in TaskIds : suspendTask(taskId)

ResumeTask == \E taskId \in TaskIds : resumeTask(taskId)

\* Bounds of the exploration of the table's capacity
CapacityMaxIds == 34        \* ids given while m_nextTaskId, as a signed number, is below
MaxPeriodicTasks == 1       \* periodic tasks in the table at a time

\* the tasks of CapacitySpec have priority 1 and no delay
CapacityScheduleOnce ==
    /\ m_nextTaskId < CapacityMaxIds
    /\ \E hasFunction \in BOOLEAN : scheduleOnce(hasFunction, 1, 0)

CapacitySchedulePeriodic ==
    /\ m_nextTaskId < CapacityMaxIds
    /\ Cardinality({i \in 1..Len(m_tasks) : m_tasks[i].period > 0}) < MaxPeriodicTasks
    /\ \E period \in Periods : schedulePeriodic(TRUE, period, 1, 0)

\* cancelTask of the task scheduled last, called when the table is full
CapacityCancelTask ==
    /\ Len(m_tasks) >= OS_MAX_TASKS
    /\ cancelTask(m_tasks[Len(m_tasks)].id)

\* scheduleOnce followed by cancelTask of the id it returned, repeated until
\* m_nextTaskId is 2^32 - 2: every pair of calls leaves the table as it was and the
\* counter one higher. Explored from the empty table; the ids of these tasks are
\* not kept in g_cancelled.
ChurnTasks ==
    /\ u_pc = "idle"
    /\ m_tasks = <<>>
    /\ m_nextTaskId >= 0
    /\ m_nextTaskId' = -2              \* 4294967294 as a signed number
    /\ UNCHANGED <<m_tasks, g_wait, g_suspended, g_cancelled>>
    /\ SchedFrame

(***************************************************************************)
(* Event System                                                            *)
(***************************************************************************)
\* Bounds of the exploration
MaxListenerIds == 2       \* listeners ever subscribed
MaxCalls == 2             \* publishSync is explored while its listeners were invoked less often
MaxPublished == 1         \* events publishAsync accepts under EventSpec
QueueMaxPublished == 129  \* events publishAsync accepts under QueueSpec
QueueMaxProcessed == 2    \* QueueSpec starts processEvents while fewer events were processed
QueueMaxListeners == 1    \* listeners subscribed under QueueSpec
DrainMaxPublished == 3    \* events publishAsync accepts under DrainSpec
DrainMaxListeners == 2    \* listeners subscribed under DrainSpec

OS_EVENT_QUEUE_SIZE == 128

OS_MAX_EVENT_LISTENERS == 64

LimitMaxListenerIds == 65 \* listeners ever subscribed under ListenerLimitSpec

maxEventsPerFrame == 10

EventTypes == {1, 2}

QueueEventTypes == {1}

ListenerPriorities == {5, 10}

ListenerIds == 1..MaxListenerIds

\* What a listener's callback does with the event: it returns, it throws, or it
\* publishes an event of some type with publishAsync and returns
ListenerEffects(types) ==
    {[kind |-> "returns", type |-> 0], [kind |-> "throws", type |-> 0]}
        \cup {[kind |-> "publishes", type |-> t] : t \in types}

\* A callback that returns, or calls unsubscribe for some listener and returns
UnsubscribingEffects ==
    {[kind |-> "returns", type |-> 0]}
        \cup {[kind |-> "unsubscribes", type |-> 0, id |-> id] : id \in ListenerIds}

\* What the call through a pointer to a destroyed EventListener does: its
\* std::function is found empty (the exception is caught), the callback the
\* listener had is invoked, or the program ends
DanglingReads == {"empty", "stale", "crash"}

QueueListenerEffects ==
    {e \in ListenerEffects(QueueEventTypes) : e.kind # "throws"}

ListenerBefore_ascending(a, b) == a.priority < b.priority

\* the comparator of the std::sort in EventSystem::subscribe
ListenerBefore(a, b) == a.priority > b.priority

\* the arrangements of the elements of a list
Arrangements(s) == {[i \in 1..Len(s) |-> s[f[i]]] : f \in Perms(Len(s))}

\* std::sort on a listener list: every arrangement in which no later element
\* comes before an earlier one (the order of equivalent elements is unspecified).
\* These are the arrangements of the elements none comes before, followed by the
\* sorted arrangements of the others.
RECURSIVE SortListeners(_)
SortListeners(s) ==
    IF s = <<>> THEN {<<>>}
    ELSE LET NoneBefore(x) == \A i \in 1..Len(s) : ~ListenerBefore(s[i], x)
             SomeBefore(x) == ~NoneBefore(x)
         IN  {a \o b : a \in Arrangements(SelectSeq(s, NoneBefore)),
                       b \in SortListeners(SelectSeq(s, SomeBefore))}

\* EventSystem::cleanupListeners, lines 264-266: the listeners remove_if leaves
StaysSubscribed(listener) == ~(listener.oneShot /\ listener.callCount > 0)

\* EventSystem::cleanupListeners (remove_if and erase keep the order of the others)
cleanupListeners(listeners) ==
    [t \in EventTypes |-> SelectSeq(listeners[t], StaysSubscribed)]

QueueFull_above(queue) == Len(queue) > OS_EVENT_QUEUE_SIZE

\* EventSystem::publishAsync, line 185
QueueFull(queue) == Len(queue) >= OS_EVENT_QUEUE_SIZE

\* EventSystem::publishAsync on a queue and the counter m_eventsPublished.  The event's
\* data is the number of the acceptance, which tells the queued events apart.
Accept(queue, published, type) ==
    IF QueueFull(queue)
    THEN [ok |-> FALSE, queue |-> queue, published |-> published]
    ELSE [ok |-> TRUE,
          queue |-> Append(queue, [type |-> type, data |-> published + 1]),
          published |-> published + 1]

\* EventSystem::publishSync, the loop of lines 160-170 from pointer i on.  The loop
\* runs over the pointers findListeners collected: pointer i is the address of
\* element i of the listener vector of the event's type, whose content was st.found[i]
\* then.  st holds what the loop changes: the listeners of the event's type (callbacks
\* unsubscribe: erase moves the later elements down, and the pointers past the new end
\* point to a destroyed element, read as st.dangling says), the ids callbacks
\* unsubscribed, the queue and the counters (callbacks publish), and the history of the
\* invocations.
NotifyDone_atThrow(st, fx, i) ==
    i > Len(st.found) \/ (i > 1 /\ fx[i - 1].kind = "throws")

\* EventSystem::publishSync, line 160: the range-for is over; an exception is caught
\* inside the loop body (lines 161-169) and does not end the loop
NotifyDone(st, fx, i) == i > Len(st.found)

RECURSIVE Notify(_, _, _)
Notify(st, fx, i) ==
    IF NotifyDone(st, fx, i) THEN st
    ELSE IF i > Len(st.listeners)
    THEN IF st.dangling = "crash" THEN [st EXCEPT !.crashed = TRUE]
         ELSE IF st.dangling = "empty" THEN Notify(st, fx, i + 1)
         ELSE Notify([st EXCEPT
                         !.notified = @ + 1,
                         !.total = @ + 1,
                         !.log = Append(@, [id |-> st.found[i].id,
                                            priority |-> st.found[i].priority,
                                            completed |-> TRUE,
                                            unsubscribed |->
                                                st.found[i].id \in st.unsubscribed]),
                         !.calls[st.found[i].id] = @ + 1],
                     fx, i + 1)
    ELSE LET listener == st.listeners[i]
             pub  == Accept(st.queue, st.published, fx[i].type)
             Others(l) == l.id # fx[i].id
             called == IF fx[i].kind = "publishes"
                       THEN [st EXCEPT !.queue = pub.queue,
                                       !.published = pub.published,
                                       !.accepted = @ + (IF pub.ok THEN 1 ELSE 0)]
                       ELSE IF fx[i].kind = "unsubscribes"
                       THEN [st EXCEPT !.listeners = SelectSeq(@, Others),
                                       !.unsubscribed = @ \cup {fx[i].id}]
                       ELSE st
             counted == IF fx[i].kind = "throws"
                        THEN called
                        ELSE [called EXCEPT
                                 !.listeners = IF i <= Len(@)
                                               THEN [@ EXCEPT ![i].callCount = @ + 1]
                                               ELSE @,
                                 !.notified = @ + 1,
                                 !.total = @ + 1]
             logged == [counted EXCEPT
                           !.log = Append(@, [id |-> listener.id,
                                              priority |-> listener.priority,
                                              completed |-> fx[i].kind # "throws",
                                              unsubscribed |->
                                                  listener.id \in st.unsubscribed]),
                           !.calls[listener.id] = @ + 1]
         IN  Notify(logged, fx, i + 1)

\* EventSystem::publishSync(event) with the callbacks behaving as fx says and the
\* read of a destroyed listener as dangling says
Published(event, fx, dangling) ==
    Notify([listeners |-> m_listeners[event.type], queue |-> m_eventQueue,
            published |-> m_eventsPublished, total |-> m_listenersNotified,
            notified |-> 0, accepted |-> 0, log |-> <<>>, calls |-> g_calls,
            found |-> m_listeners[event.type], unsubscribed |-> {},
            dangling |-> dangling, crashed |-> FALSE],
           fx, 1)

Delivered_unheard(event, fx) ==
    [listeners |-> m_listeners[event.type], queue |-> Tail(m_eventQueue),
     published |-> m_eventsPublished, total |-> m_listenersNotified,
     notified |-> 0, accepted |-> 0, log |-> <<>>, calls |-> g_calls,
     found |-> m_listeners[event.type], unsubscribed |-> {},
     dangling |-> "empty", crashed |-> FALSE]

\* the same after processEvents has popped the event off the queue, for callbacks that
\* do not unsubscribe (no listener is destroyed, and dangling is not read)
Delivered(event, fx) ==
    Notify([listeners |-> m_listeners[event.type], queue |-> Tail(m_eventQueue),
            published |-> m_eventsPublished, total |-> m_listenersNotified,
            notified |-> 0, accepted |-> 0, log |-> <<>>, calls |-> g_calls,
            found |-> m_listeners[event.type], unsubscribed |-> {},
            dangling |-> "empty", crashed |-> FALSE],
           fx, 1)

EventIdle ==
    /\ p_pc = "idle"
    /\ UNCHANGED <<p_pc, eventsProcessed, g_accepted>>
    /\ g_delivered' = <<>>
    /\ UNCHANGED <<memVars, osVars, clockVars, schedVars, appVars>>

\* EventSystem::subscribe
subscribe(eventType, hasCallback, priority, oneShot) ==
    /\ EventIdle
    /\ g_notifyLog' = <<>>
    /\ UNCHANGED <<m_eventQueue, m_eventsPublished, m_eventsProcessed, m_listenersNotified,
                   g_calls>>
    /\ IF ~hasCallback
       THEN /\ UNCHANGED <<m_listeners, m_nextListenerId>>
            /\ g_evCall' = [op |-> "subscribe", ret |-> 0]
       ELSE LET listener == [id |-> m_nextListenerId + 1, priority |-> priority,
                             oneShot |-> oneShot, callCount |-> 0]
            IN  /\ m_nextListenerId' = m_nextListenerId + 1
                /\ \E sorted \in SortListeners(Append(m_listeners[eventType], listener)) :
                       m_listeners' = [m_listeners EXCEPT ![eventType] = sorted]
                /\ g_evCall' = [op |-> "subscribe", ret |-> m_nextListenerId + 1]

\* EventSystem::unsubscribe
unsubscribe(listenerId) ==
    /\ EventIdle
    /\ g_notifyLog' = <<>>
    /\ UNCHANGED <<m_eventQueue, m_eventsPublished, m_eventsProcessed, m_listenersNotified,
                   m_nextListenerId, g_calls>>
    /\ LET Others(listener) == listener.id # listenerId
           found == \E t \in EventTypes : \E i \in 1..Len(m_listeners[t]) :
                        m_listeners[t][i].id = listenerId
       IN  /\ m_listeners' = [t \in EventTypes |-> SelectSeq(m_listeners[t], Others)]
           /\ g_evCall' = [op |-> "unsubscribe", ret |-> IF found THEN 1 ELSE 0]

\* EventSystem::unsubscribeAll
unsubscribeAll(eventType) ==
    /\ EventIdle
    /\ g_notifyLog' = <<>>
    /\ UNCHANGED <<m_eventQueue, m_eventsPublished, m_eventsProcessed, m_listenersNotified,
                   m_nextListenerId, g_calls>>
    /\ m_listeners' = [m_listeners EXCEPT ![eventType] = <<>>]
    /\ g_evCall' = [op |-> "unsubscribeAll", ret |-> Len(m_listeners[eventType])]

\* EventSystem::publishSync called by the application; fx[i] is what the callback
\* invoked through the i-th pointer does, reads is what the read of a destroyed
\* listener may do, and no more than maxPublished events are ever accepted.  The
\* unsubscribe of a callback erases the listener from the list of its type.
publishSync(eventType, effects, maxPublished, reads) ==
    /\ p_pc = "idle"
    /\ \E fx \in [1..Len(m_listeners[eventType]) -> effects], dangling \in reads :
          LET st == Published([type |-> eventType, data |-> 0], fx, dangling)
              Stays(l) == l.id \notin st.unsubscribed
          IN  /\ st.accepted > 0 => st.published <= maxPublished
              /\ m_listeners' = [t \in EventTypes |->
                                    IF t = eventType THEN st.listeners
                                    ELSE SelectSeq(m_listeners[t], Stays)]
              /\ m_eventQueue' = st.queue
              /\ m_eventsPublished' = st.published
              /\ m_listenersNotified' = st.total
              /\ g_calls' = st.calls
              /\ g_notifyLog' = st.log
              /\ g_evCall' = [op |-> "publishSync", ret |-> st.notified, type |-> eventType,
                              found |-> [i \in 1..Len(st.found) |-> st.found[i].id],
                              unsubscribed |-> st.unsubscribed]
              /\ p_pc' = IF st.crashed THEN "crashed" ELSE "idle"
    /\ g_delivered' = <<>>
    /\ UNCHANGED <<m_eventsProcessed, m_nextListenerId, eventsProcessed, g_accepted>>
    /\ UNCHANGED <<memVars, osVars, clockVars, schedVars, appVars>>

\* EventSystem::publishAsync called by the application
publishAsync(eventType) ==
    /\ EventIdle
    /\ g_notifyLog' = <<>>
    /\ LET pub == Accept(m_eventQueue, m_eventsPublished, eventType)
       IN  /\ m_eventQueue' = pub.queue
           /\ m_eventsPublished' = pub.published
           /\ g_evCall' = [op |-> "publishAsync", ret |-> IF pub.ok THEN 1 ELSE 0]
    /\ UNCHANGED <<m_listeners, m_eventsProcessed, m_listenersNotified, m_nextListenerId,
                   g_calls>>

\* EventSystem::clearQueue
clearQueue ==
    /\ EventIdle
    /\ g_notifyLog' = <<>>
    /\ m_eventQueue' = <<>>
    /\ g_evCall' = [op |-> "clearQueue", ret |-> 0]
    /\ UNCHANGED <<m_listeners, m_eventsPublished, m_eventsProcessed, m_listenersNotified,
                   m_nextListenerId, g_calls>>

DrainContinues_unlimited(queue, processed) == queue # <<>>

\* EventSystem::processEvents, the condition of the while of line 55
DrainContinues(queue, processed) == queue # <<>> /\ processed < maxEventsPerFrame

\* EventSystem::processEvents, lines 50-53: the call starts
ProcessBegin ==
    /\ p_pc = "idle"
    /\ p_pc' = "drain"
    /\ eventsProcessed' = 0
    /\ g_delivered' = <<>>
    /\ g_accepted' = 0
    /\ g_notifyLog' = <<>>
    /\ g_evCall' = [op |-> "processEvents", ret |-> 0]
    /\ UNCHANGED <<m_listeners, m_eventQueue, m_eventsPublished, m_eventsProcessed,
                   m_listenersNotified, m_nextListenerId, g_calls>>
    /\ UNCHANGED <<memVars, osVars, clockVars, schedVars, appVars>>

\* EventSystem::processEvents, lines 55-68: one turn of the loop
processStep(effects, maxPublished) ==
    /\ p_pc = "drain"
    /\ DrainContinues(m_eventQueue, eventsProcessed)
    /\ LET event == Head(m_eventQueue)
       IN  \E fx \in [1..Len(m_listeners[event.type]) -> effects] :
              LET st == Delivered(event, fx)
              IN  /\ st.accepted > 0 => st.published <= maxPublished
                  /\ m_listeners' = [m_listeners EXCEPT ![event.type] = st.listeners]
                  /\ m_eventQueue' = st.queue
                  /\ m_eventsPublished' = st.published
                  /\ m_listenersNotified' = st.total
                  /\ g_calls' = st.calls
                  /\ g_notifyLog' = st.log
                  /\ g_accepted' = g_accepted + st.accepted
                  /\ g_delivered' = Append(g_delivered, event)
    /\ eventsProcessed' = eventsProcessed + 1
    /\ m_eventsProcessed' = m_eventsProcessed + 1
    /\ UNCHANGED <<p_pc, m_nextListenerId, g_evCall>>
    /\ Kernel(<<"event">>)
    /\ UNCHANGED <<memVars, clockVars, schedVars, appVars>>

\* EventSystem::processEvents, lines 70-75: the loop is over, the call returns
ProcessEnd ==
    /\ p_pc = "drain"
    /\ ~DrainContinues(m_eventQueue, eventsProcessed)
    /\ m_listeners' = IF eventsProcessed > 0 THEN cleanupListeners(m_listeners)
                      ELSE m_listeners
    /\ g_evCall' = [op |-> "processEvents", ret |-> eventsProcessed]
    /\ p_pc' = "idle"
    /\ eventsProcessed' = 0
    /\ g_accepted' = 0
    /\ g_notifyLog' = <<>>
    /\ UNCHANGED <<m_eventQueue, m_eventsPublished, m_eventsProcessed, m_listenersNotified,
                   m_nextListenerId, g_calls, g_delivered>>
    /\ Kernel(<<"drain">>)
    /\ UNCHANGED <<memVars, clockVars, schedVars, appVars>>

EventInit ==
    /\ m_listeners = [t \in EventTypes |-> <<>>]
    /\ m_eventQueue = <<>>
    /\ m_eventsPublished = 0
    /\ m_eventsProcessed = 0
    /\ m_listenersNotified = 0
    /\ m_nextListenerId = 0
    /\ p_pc = "idle"
    /\ eventsProcessed = 0
    /\ g_calls = [id \in ListenerIds |-> 0]
    /\ g_notifyLog = <<>>
    /\ g_delivered = <<>>
    /\ g_accepted = 0
    /\ g_evCall = [op |-> "none", ret |-> 0]

CallsBounded(eventType) ==
    \A i \in 1..Len(m_listeners[eventType]) : g_calls[m_listeners[eventType][i].id] < MaxCalls

Subscribe ==
    /\ m_nextListenerId < MaxListenerIds
    /\ \E eventType \in EventTypes, hasCallback \in BOOLEAN,
          priority \in ListenerPriorities, oneShot \in BOOLEAN :
          subscribe(eventType, hasCallback, priority, oneShot)

Unsubscribe == \E listenerId \in ListenerIds : unsubscribe(listenerId)

\* subscribe of one more listener of type 1, of a priority below the ones before it
LimitSubscribe ==
    /\ m_nextListenerId < LimitMaxListenerIds
    /\ subscribe(1, TRUE, 255 - m_nextListenerId, FALSE)

UnsubscribeAll == \E eventType \in EventTypes : unsubscribeAll(eventType)

PublishSync ==
    \E eventType \in EventTypes :
        /\ CallsBounded(eventType)
        /\ publishSync(eventType, ListenerEffects(EventTypes), MaxPublished, {"empty"})

\* The calls of UnsubscribeSpec: publishSync with callbacks that unsubscribe
UnsubscribingPublishSync ==
    \E eventType \in EventTypes :
        /\ CallsBounded(eventType)
        /\ publishSync(eventType, UnsubscribingEffects, 0, DanglingReads)

PublishAsync ==
    /\ m_eventsPublished < MaxPublished
    /\ \E eventType \in EventTypes : publishAsync(eventType)

ClearQueue == clearQueue

ProcessStep == processStep(ListenerEffects(EventTypes), MaxPublished)

QueueSubscribe ==
    /\ m_nextListenerId < QueueMaxListeners
    /\ m_eventsPublished = 0
    /\ \E eventType \in QueueEventTypes :
          subscribe(eventType, TRUE, 5, FALSE)

QueuePublishAsync ==
    /\ m_eventsPublished < QueueMaxPublished
    /\ \E eventType \in QueueEventTypes : publishAsync(eventType)

QueueProcessBegin ==
    /\ m_eventsProcessed < QueueMaxProcessed
    /\ ProcessBegin

QueueProcessStep == processStep(QueueListenerEffects, QueueMaxPublished)

\* The calls of DrainSpec: the application subscribes, unsubscribes and publishes
\* while processEvents keeps being called; clearQueue and shutdown are not called
DrainSubscribe ==
    /\ m_nextListenerId < DrainMaxListeners
    /\ \E eventType \in EventTypes, priority \in ListenerPriorities, oneShot \in BOOLEAN :
          subscribe(eventType, TRUE, priority, oneShot)

DrainUnsubscribe == \E listenerId \in 1..DrainMaxListeners : unsubscribe(listenerId)

DrainPublishAsync ==
    /\ m_eventsPublished < DrainMaxPublished
    /\ \E eventType \in EventTypes : publishAsync(eventType)

DrainProcessBegin == ProcessBegin

DrainProcessStep == processStep(ListenerEffects(EventTypes), DrainMaxPublished)

DrainProcessEnd == ProcessEnd

(***************************************************************************)
(* Application Manager and BaseApp lifecycle                               *)
(*                                                                         *)
(* An app id is a std::string; the ids are kept as the numbers             *)
(* 1..MaxAppIds in the order std::map iterates its keys, and the empty     *)
(* string as NoAppId.  Error codes and states are kept by their names.     *)
(* PUBLISH_EVENT hands an event to EventSystem::publishAsync; the          *)
(* specifications of the Application Manager record the events handed      *)
(* over in g_appEvents and leave the queue to the Event System's           *)
(* specifications.                                                         *)
(***************************************************************************)
\* Bounds of the exploration
MaxAppIds == 3            \* distinct app ids
MaxLaunches == 3          \* launchApp is explored while fewer launches were counted
UpdateMaxLaunches == 3    \* the same under AppUpdateSpec

OS_MAX_APPS == 12

OS_APP_HEAP_SIZE == 4194304

OS_SYSTEM_HEAP_SIZE == 2097152

CleanupPeriod == 10000

APP_LOW == 0

APP_NORMAL == 1

NoAppId == 0

AppIds == 1..MaxAppIds

\* values setMaxConcurrentApps is called with
Ceilings == {2}

\* What the factory of an id gives createApp: no instance (it returns nullptr or
\* throws), or an instance with its priority, its memory usage estimate, the
\* result of its initialize() and its start(): BaseApp::start, or an override
\* that fails
NoInstance == [made |-> FALSE]

Instances(priorities, usages) ==
    [made : {TRUE}, priority : priorities, memoryUsage : usages,
     initialize : {"OS_OK", "OS_ERROR_NO_MEMORY"},
     start : {"BaseApp::start", "OS_ERROR_GENERIC"}]

\* the instances of AppSpec
PlainInstances == Instances({APP_NORMAL}, {1048576})

\* the instances of AppUpdateSpec: they start; one kind has low priority and
\* uses 3 MB, the other has normal priority and uses 1 MB
SizedInstances ==
    {i \in Instances({APP_LOW, APP_NORMAL}, {1048576, 3145728}) :
        /\ i.initialize = "OS_OK" /\ i.start = "BaseApp::start"
        /\ i.priority = APP_NORMAL <=> i.memoryUsage = 1048576}

\* BaseApp after construction (base_app.h:244-249) and the derived constructor's
\* setPriority and setMemoryUsage
NewApp(instance) ==
    [state |-> "STOPPED", priority |-> instance.priority,
     memoryUsage |-> instance.memoryUsage, exitRequested |-> FALSE]

AppEvent(type, appId) == [type |-> type, app |-> appId]

\* BaseApp::resume
resume(app, appId) ==
    IF app.state # "PAUSED"
    THEN [app |-> app, ret |-> "OS_ERROR_GENERIC", events |-> <<>>]
    ELSE [app |-> [app EXCEPT !.state = "RUNNING"], ret |-> "OS_OK",
          events |-> <<AppEvent("EVENT_APP_RESUME", appId)>>]

\* BaseApp::start
start(app, appId) ==
    IF app.state = "RUNNING"
    THEN [app |-> app, ret |-> "OS_OK", events |-> <<>>]
    ELSE IF app.state = "PAUSED" THEN resume(app, appId)
    ELSE [app |-> [app EXCEPT !.state = "RUNNING", !.exitRequested = FALSE],
          ret |-> "OS_OK", events |-> <<AppEvent("EVENT_APP_LAUNCH", appId)>>]

pause_forced(app, appId) ==
    [app |-> [app EXCEPT !.state = "PAUSED"], ret |-> "OS_OK",
     events |-> <<AppEvent("EVENT_APP_SUSPEND", appId)>>]

\* BaseApp::pause
pause(app, appId) ==
    IF app.state # "RUNNING"
    THEN [app |-> app, ret |-> "OS_ERROR_GENERIC", events |-> <<>>]
    ELSE [app |-> [app EXCEPT !.state = "PAUSED"], ret |-> "OS_OK",
          events |-> <<AppEvent("EVENT_APP_SUSPEND", appId)>>]

\* BaseApp::stop
stop(app, appId) ==
    IF app.state = "STOPPED"
    THEN [app |-> app, ret |-> "OS_OK", events |-> <<>>]
    ELSE [app |-> [app EXCEPT !.state = "STOPPED"], ret |-> "OS_OK",
          events |-> <<AppEvent("EVENT_APP_EXIT", appId)>>]

\* The fields the AppManager's operations change, as one value
AppMgr ==
    [apps |-> m_runningApps, current |-> m_currentAppId,
     launches |-> m_totalLaunches, kills |-> m_totalKills, events |-> <<>>]

\* the outcome r of a BaseApp operation on the instance held for appId
WithApp(am, appId, r) ==
    [am EXCEPT !.apps[appId] = r.app, !.events = @ \o r.events]

\* std::map::erase
Without(apps, appId) == [id \in DOMAIN apps \ {appId} |-> apps[id]]

\* m_runningApps.begin()->first, NoAppId when begin() is end()
Begin(apps) ==
    IF DOMAIN apps = {} THEN NoAppId
    ELSE CHOOSE id \in DOMAIN apps : \A other \in DOMAIN apps : id <= other

\* ++it on an iterator of the map that stands on the key appId
Successor(apps, appId) ==
    LET later == {id \in DOMAIN apps : id > appId}
    IN  IF later = {} THEN NoAppId
        ELSE CHOOSE id \in later : \A other \in later : id <= other

\* AppManager::isAppRunning
isAppRunning(apps, appId) == appId \in DOMAIN apps /\ apps[appId].state = "RUNNING"

\* AppManager::switchToApp
switchToApp(am, appId) ==
    IF appId = NoAppId THEN [am |-> am, ret |-> "OS_ERROR_INVALID_PARAM"]
    ELSE IF ~isAppRunning(am.apps, appId) THEN [am |-> am, ret |-> "OS_ERROR_NOT_FOUND"]
    ELSE IF am.current = appId THEN [am |-> am, ret |-> "OS_OK"]
    ELSE LET paused == IF am.current # NoAppId /\ isAppRunning(am.apps, am.current)
                       THEN WithApp(am, am.current, pause(am.apps[am.current], am.current))
                       ELSE am
             switched == [paused EXCEPT !.current = appId]
             resumed == IF switched.apps[appId].state = "PAUSED"
                        THEN WithApp(switched, appId, resume(switched.apps[appId], appId))
                        ELSE switched
         IN  [am |-> resumed, ret |-> "OS_OK"]

\* AppManager::killApp; same is the outcome of the comparison of line 197
killAppCompared(am, appId, same) ==
    IF appId = NoAppId THEN [am |-> am, ret |-> "OS_ERROR_INVALID_PARAM"]
    ELSE IF appId \notin DOMAIN am.apps THEN [am |-> am, ret |-> "OS_ERROR_NOT_FOUND"]
    ELSE LET stopped == stop(am.apps[appId], appId)
             erased == [am EXCEPT !.apps = Without(am.apps, appId),
                                  !.kills = @ + 1,
                                  !.events = @ \o stopped.events]
             cleared == [erased EXCEPT !.current = NoAppId]
         IN  IF ~same THEN [am |-> erased, ret |-> "OS_OK"]
             ELSE IF DOMAIN cleared.apps = {} THEN [am |-> cleared, ret |-> "OS_OK"]
             ELSE [am |-> switchToApp(cleared, Begin(cleared.apps)).am, ret |-> "OS_OK"]

\* AppManager::killApp called with an id that outlives the call
killApp(am, appId) == killAppCompared(am, appId, am.current = appId)

AtCeiling_above(apps, maxConcurrentApps) == Cardinality(DOMAIN apps) > maxConcurrentApps

\* AppManager::launchApp, line 138
AtCeiling(apps, maxConcurrentApps) == Cardinality(DOMAIN apps) >= maxConcurrentApps

\* AppManager::createApp; yields is what the factory gives when it is called
createApp(factories, appId, yields) ==
    IF appId \notin factories THEN NoInstance ELSE yields

Succeeded_always(result) == TRUE

\* AppManager::launchApp, lines 152 and 159: result != OS_OK returns the error
Succeeded(result) == result = "OS_OK"

\* AppManager::launchApp.  factory: the factory was called; replaced: an instance
\* the running set held for the id was destroyed by the assignment of line 166
launchApp(am, appId, factories, maxConcurrentApps, yields) ==
    LET Result(after, ret, factory, replaced) ==
            [am |-> after, ret |-> ret, factory |-> factory, replaced |-> replaced]
    IN  IF appId = NoAppId THEN Result(am, "OS_ERROR_INVALID_PARAM", FALSE, FALSE)
        ELSE IF isAppRunning(am.apps, appId)
        THEN Result(switchToApp(am, appId).am, switchToApp(am, appId).ret, FALSE, FALSE)
        ELSE IF AtCeiling(am.apps, maxConcurrentApps)
        THEN Result(am, "OS_ERROR_BUSY", FALSE, FALSE)
        ELSE LET app == createApp(factories, appId, yields)
                 called == appId \in factories
             IN  IF ~app.made THEN Result(am, "OS_ERROR_GENERIC", called, FALSE)
                 ELSE IF ~Succeeded(app.initialize)
                 THEN Result(am, app.initialize, called, FALSE)
                 ELSE LET started == IF app.start = "BaseApp::start"
                                     THEN start(NewApp(app), appId)
                                     ELSE [app |-> NewApp(app), ret |-> app.start,
                                           events |-> <<>>]
                          added == [am EXCEPT !.apps = (appId :> started.app) @@ am.apps,
                                              !.launches = @ + 1,
                                              !.events = @ \o started.events]
                          switched == switchToApp(added, appId)
                      IN  IF ~Succeeded(started.ret)
                          THEN Result(am, started.ret, called, FALSE)
                          ELSE Result(switched.am, switched.ret, called,
                                      appId \in DOMAIN am.apps)

\* AppManager::getTotalMemoryUsage
RECURSIVE getTotalMemoryUsage(_)
getTotalMemoryUsage(apps) ==
    IF DOMAIN apps = {} THEN 0
    ELSE LET id == Begin(apps)
         IN  apps[id].memoryUsage + getTotalMemoryUsage(Without(apps, id))

\* AppManager::cleanupStoppedApps
cleanupStoppedApps(apps) ==
    [id \in {i \in DOMAIN apps : apps[i].state # "STOPPED"} |-> apps[id]]

IsCandidate_any(appId, current) == TRUE

\* AppManager::enforceResourceLimits, line 407
IsCandidate(appId, current) == appId # current

\* the comparator of the std::sort in enforceResourceLimits
CandidateBefore(a, b) == a.priority < b.priority

\* std::sort on the candidates: every arrangement of them in which no later
\* element comes before an earlier one
SortCandidates(apps, current) ==
    LET ids == {id \in DOMAIN apps : IsCandidate(id, current)}
        Candidate(id) == [id |-> id, priority |-> apps[id].priority]
    IN  {s \in [1..Cardinality(ids) -> {Candidate(id) : id \in ids}] :
            /\ \A i, j \in 1..Cardinality(ids) : i # j => s[i] # s[j]
            /\ \A i, j \in 1..Cardinality(ids) : i < j => ~CandidateBefore(s[j], s[i])}

\* AppManager::enforceResourceLimits, line 418: usage < OS_APP_HEAP_SIZE * 0.8, a
\* comparison of doubles, in whole numbers
BelowTarget(usage) == 5 * usage < 4 * OS_APP_HEAP_SIZE

\* AppManager::enforceResourceLimits, line 401
AboveCeiling(usage, systemMemory) ==
    usage > OS_APP_HEAP_SIZE \/ systemMemory > OS_SYSTEM_HEAP_SIZE

\* AppManager::enforceResourceLimits, the loop of lines 417-423 from candidate i on;
\* st.killed records [id, priority, usage found before the kill]
RECURSIVE KillCandidates(_, _, _)
KillCandidates(st, candidates, i) ==
    IF i > Len(candidates) \/ BelowTarget(getTotalMemoryUsage(st.am.apps)) THEN st
    ELSE KillCandidates(
             [am |-> killApp(st.am, candidates[i].id).am,
              killed |-> Append(st.killed,
                                [id |-> candidates[i].id,
                                 priority |-> candidates[i].priority,
                                 usage |-> getTotalMemoryUsage(st.am.apps)])],
             candidates, i + 1)

\* AppManager::enforceResourceLimits with the candidates as std::sort left them
enforceResourceLimits(am, systemMemory, candidates) ==
    IF AboveCeiling(getTotalMemoryUsage(am.apps), systemMemory)
    THEN KillCandidates([am |-> am, killed |-> <<>>], candidates, 1)
    ELSE [am |-> am, killed |-> <<>>]

\* No AppManager::update is in progress, and the call that is made is none
AppIdle ==
    /\ a_pc = "idle"
    /\ UNCHANGED <<a_pc, a_it, g_updated, g_threw>>
    /\ UNCHANGED <<memVars, osVars, clockVars, schedVars, evVars>>

\* the fields an operation has changed are stored, its events are handed over
Applied(am) ==
    /\ m_runningApps' = am.apps
    /\ m_currentAppId' = am.current
    /\ m_totalLaunches' = am.launches
    /\ m_totalKills' = am.kills
    /\ g_appEvents' = am.events

\* AppManager::initialize (its three listeners do nothing, see handleAppEvent)
initialize ==
    /\ AppIdle
    /\ m_initialized' = TRUE
    /\ m_lastCleanup' = IF m_initialized THEN m_lastCleanup ELSE now
    /\ g_appCall' = [op |-> "initialize", ret |-> "OS_OK"]
    /\ g_appEvents' = <<>>
    /\ UNCHANGED <<m_appFactories, m_runningApps, m_currentAppId, m_maxConcurrentApps,
                   m_totalLaunches, m_totalKills, g_refused>>

\* AppManager::registerApp with a factory that is not empty
registerApp(appId) ==
    /\ AppIdle
    /\ LET ret == IF ~m_initialized \/ appId = NoAppId THEN "OS_ERROR_INVALID_PARAM"
                  ELSE IF appId \in m_appFactories THEN "OS_ERROR_GENERIC"
                  ELSE "OS_OK"
       IN  /\ m_appFactories' = IF ret = "OS_OK" THEN m_appFactories \cup {appId}
                                ELSE m_appFactories
           /\ g_appCall' = [op |-> "registerApp", id |-> appId, ret |-> ret]
    /\ g_appEvents' = <<>>
    /\ UNCHANGED <<m_initialized, m_runningApps, m_currentAppId, m_maxConcurrentApps,
                   m_totalLaunches, m_totalKills, m_lastCleanup, g_refused>>

\* AppManager::setMaxConcurrentApps
setMaxConcurrentApps(maxApps) ==
    /\ AppIdle
    /\ m_maxConcurrentApps' = maxApps
    /\ g_appCall' = [op |-> "setMaxConcurrentApps", ret |-> "OS_OK"]
    /\ g_appEvents' = <<>>
    /\ UNCHANGED <<m_initialized, m_appFactories, m_runningApps, m_currentAppId,
                   m_totalLaunches, m_totalKills, m_lastCleanup, g_refused>>

\* the instance starts: its factory gives it, initialize() and start() succeed
Starts(yields) ==
    yields.made /\ yields.initialize = "OS_OK" /\ yields.start = "BaseApp::start"

\* AppManager::launchApp called by the system; yields is what the id's factory
\* gives if it is called.  The record of the call keeps it, and says whether the
\* call repeats one refused as busy after a kill (retry).
LaunchAppCall(appId, yields) ==
    /\ AppIdle
    /\ IF ~m_initialized
       THEN /\ g_appCall' = [op |-> "launchApp", id |-> appId,
                             ret |-> "OS_ERROR_INVALID_PARAM", factory |-> FALSE,
                             replaced |-> FALSE, yields |-> yields,
                             retry |-> FALSE]
            /\ g_appEvents' = <<>>
            /\ UNCHANGED <<m_runningApps, m_currentAppId, m_totalLaunches, m_totalKills,
                           g_refused>>
       ELSE LET r == launchApp(AppMgr, appId, m_appFactories, m_maxConcurrentApps, yields)
            IN  /\ Applied(r.am)
                /\ g_appCall' = [op |-> "launchApp", id |-> appId, ret |-> r.ret,
                                 factory |-> r.factory, replaced |-> r.replaced,
                                 yields |-> yields,
                                 retry |-> g_refused.id = appId /\ g_refused.freed]
                /\ g_refused' = IF r.ret = "OS_ERROR_BUSY"
                                THEN [id |-> appId, freed |-> FALSE]
                                ELSE [id |-> NoAppId, freed |-> FALSE]
    /\ UNCHANGED <<m_initialized, m_appFactories, m_maxConcurrentApps, m_lastCleanup>>

\* AppManager::killApp called by the system
KillAppCall(appId) ==
    /\ AppIdle
    /\ IF ~m_initialized
       THEN /\ g_appCall' = [op |-> "killApp", id |-> appId,
                             ret |-> "OS_ERROR_INVALID_PARAM", foreground |-> FALSE]
            /\ g_appEvents' = <<>>
            /\ UNCHANGED <<m_runningApps, m_currentAppId, m_totalLaunches, m_totalKills,
                           g_refused>>
       ELSE LET r == killApp(AppMgr, appId)
            IN  /\ Applied(r.am)
                /\ g_appCall' = [op |-> "killApp", id |-> appId, ret |-> r.ret,
                                 foreground |-> m_currentAppId = appId]
                /\ g_refused' = IF r.ret = "OS_OK" /\ g_refused.id # NoAppId
                                THEN [g_refused EXCEPT !.freed = TRUE]
                                ELSE g_refused
    /\ UNCHANGED <<m_initialized, m_appFactories, m_maxConcurrentApps, m_lastCleanup>>

\* AppManager::unregisterApp
unregisterApp(appId) ==
    /\ AppIdle
    /\ IF ~m_initialized
       THEN /\ g_appCall' = [op |-> "unregisterApp", id |-> appId,
                             ret |-> "OS_ERROR_INVALID_PARAM"]
            /\ g_appEvents' = <<>>
            /\ UNCHANGED <<m_appFactories, m_runningApps, m_currentAppId, m_totalLaunches,
                           m_totalKills, g_refused>>
       ELSE LET r == killApp(AppMgr, appId)
            IN  /\ Applied(r.am)
                /\ m_appFactories' = m_appFactories \ {appId}
                /\ g_appCall' = [op |-> "unregisterApp", id |-> appId,
                                 ret |-> IF appId \in m_appFactories THEN "OS_OK"
                                         ELSE "OS_ERROR_NOT_FOUND"]
                /\ g_refused' = IF r.ret = "OS_OK" /\ g_refused.id # NoAppId
                                THEN [g_refused EXCEPT !.freed = TRUE]
                                ELSE g_refused
    /\ UNCHANGED <<m_initialized, m_maxConcurrentApps, m_lastCleanup>>

\* AppManager::switchToApp called by the system
SwitchToAppCall(appId) ==
    /\ AppIdle
    /\ IF ~m_initialized
       THEN /\ g_appCall' = [op |-> "switchToApp", id |-> appId,
                             ret |-> "OS_ERROR_INVALID_PARAM"]
            /\ g_appEvents' = <<>>
            /\ UNCHANGED <<m_runningApps, m_currentAppId, m_totalLaunches, m_totalKills>>
       ELSE LET r == switchToApp(AppMgr, appId)
            IN  /\ Applied(r.am)
                /\ g_appCall' = [op |-> "switchToApp", id |-> appId, ret |-> r.ret]
    /\ UNCHANGED <<m_initialized, m_appFactories, m_maxConcurrentApps, m_lastCleanup,
                   g_refused>>

\* AppManager::pauseApp
pauseApp(appId) ==
    /\ AppIdle
    /\ IF ~m_initialized \/ appId \notin DOMAIN m_runningApps
       THEN /\ g_appCall' = [op |-> "pauseApp", id |-> appId,
                             ret |-> IF ~m_initialized THEN "OS_ERROR_GENERIC"
                                     ELSE "OS_ERROR_NOT_FOUND"]
            /\ g_appEvents' = <<>>
            /\ UNCHANGED m_runningApps
       ELSE LET r == pause(m_runningApps[appId], appId)
            IN  /\ m_runningApps' = [m_runningApps EXCEPT ![appId] = r.app]
                /\ g_appEvents' = r.events
                /\ g_appCall' = [op |-> "pauseApp", id |-> appId, ret |-> r.ret]
    /\ UNCHANGED <<m_initialized, m_appFactories, m_currentAppId, m_maxConcurrentApps,
                   m_totalLaunches, m_totalKills, m_lastCleanup, g_refused>>

\* AppManager::resumeApp
resumeApp(appId) ==
    /\ AppIdle
    /\ IF ~m_initialized \/ appId \notin DOMAIN m_runningApps
       THEN /\ g_appCall' = [op |-> "resumeApp", id |-> appId,
                             ret |-> IF ~m_initialized THEN "OS_ERROR_GENERIC"
                                     ELSE "OS_ERROR_NOT_FOUND"]
            /\ g_appEvents' = <<>>
            /\ UNCHANGED m_runningApps
       ELSE LET r == resume(m_runningApps[appId], appId)
            IN  /\ m_runningApps' = [m_runningApps EXCEPT ![appId] = r.app]
                /\ g_appEvents' = r.events
                /\ g_appCall' = [op |-> "resumeApp", id |-> appId, ret |-> r.ret]
    /\ UNCHANGED <<m_initialized, m_appFactories, m_currentAppId, m_maxConcurrentApps,
                   m_totalLaunches, m_totalKills, m_lastCleanup, g_refused>>

\* What the update() of an app does: it returns, it throws, it calls requestExit()
\* and returns, or it calls its own stop() and returns
AppUpdateEffects == {"returns", "throws", "requestsExit", "stops"}

\* AppManager::update, lines 57-62: the call starts, the range-for begins
AppUpdateBegin ==
    /\ a_pc = "idle"
    /\ g_appEvents' = <<>>
    /\ g_updated' = {}
    /\ g_threw' = {}
    /\ IF ~m_initialized
       THEN /\ g_appCall' = [op |-> "update", ret |-> "OS_ERROR_GENERIC"]
            /\ UNCHANGED <<a_pc, a_it>>
       ELSE /\ g_appCall' = [op |-> "update", ret |-> "running"]
            /\ a_pc' = "loop"
            /\ a_it' = Begin(m_runningApps)
    /\ UNCHANGED <<m_initialized, m_appFactories, m_runningApps, m_currentAppId,
                   m_maxConcurrentApps, m_totalLaunches, m_totalKills, m_lastCleanup,
                   g_refused>>
    /\ Kernel(IF m_initialized THEN <<>> ELSE <<"done">>)
    /\ UNCHANGED <<memVars, clockVars, schedVars, evVars>>

\* AppManager::update, lines 62-78: one turn of the range-for, on the node of a_it.
\* killApp erases that node: the reference appId it was given dangles when line 197
\* compares it (same is the real outcome, or unequal), and the ++ of the range-for
\* is applied to an invalidated iterator (the loop goes on at any node left, ends,
\* or the program crashes).
AppUpdateStep ==
    /\ a_pc = "loop"
    /\ a_it # NoAppId
    /\ LET appId == a_it
           app == m_runningApps[appId]
           am == [AppMgr EXCEPT !.events = g_appEvents]
       IN  IF app.state # "RUNNING"
           THEN /\ a_it' = Successor(m_runningApps, appId)
                /\ UNCHANGED <<a_pc, m_runningApps, m_currentAppId, m_totalLaunches,
                               m_totalKills, g_appEvents, g_updated, g_threw>>
           ELSE \E effect \in AppUpdateEffects :
                   /\ g_updated' = g_updated \cup {appId}
                   /\ g_threw' = IF effect = "throws" THEN g_threw \cup {appId}
                                 ELSE g_threw
                   /\ IF effect = "returns"
                      THEN /\ a_it' = Successor(m_runningApps, appId)
                           /\ UNCHANGED <<a_pc, m_runningApps, m_currentAppId,
                                          m_totalLaunches, m_totalKills, g_appEvents>>
                      ELSE IF effect = "stops"
                      THEN /\ Applied(WithApp(am, appId, stop(app, appId)))
                           /\ a_it' = Successor(m_runningApps, appId)
                           /\ UNCHANGED a_pc
                      ELSE LET reported ==
                                   IF effect = "throws"
                                   THEN [am EXCEPT !.events =
                                            Append(@, AppEvent("EVENT_APP_ERROR", appId))]
                                   ELSE [am EXCEPT !.apps[appId].exitRequested = TRUE]
                           IN  \E same \in {m_currentAppId = appId, FALSE} :
                                  LET r == killAppCompared(reported, appId, same)
                                  IN  /\ Applied(r.am)
                                      /\ \/ /\ a_pc' = "loop"
                                            /\ a_it' \in DOMAIN r.am.apps \cup {NoAppId}
                                         \/ /\ a_pc' = "crashed"
                                            /\ a_it' = NoAppId
    /\ UNCHANGED <<m_initialized, m_appFactories, m_maxConcurrentApps, m_lastCleanup,
                   g_refused, g_appCall>>
    /\ Kernel(IF m_runningApps[a_it].state = "RUNNING" THEN <<"update">> ELSE <<>>)
    /\ UNCHANGED <<memVars, clockVars, schedVars, evVars>>

\* AppManager::update, line 82
CleanupDue(time, lastCleanup) == U32Since(time, lastCleanup) >= CleanupPeriod

\* AppManager::update, lines 80-88: the range-for is over; the periodic cleanup,
\* and the call returns.  The record of the call says whether the cleanup ran,
\* what enforceResourceLimits found (usage, above, foreground, the number of
\* candidates) and which apps it killed, in order.
AppUpdateEnd ==
    /\ a_pc = "loop"
    /\ a_it = NoAppId
    /\ a_pc' = "idle"
    /\ LET am == [AppMgr EXCEPT !.events = g_appEvents]
           cleaned == [am EXCEPT !.apps = cleanupStoppedApps(am.apps)]
           usage == getTotalMemoryUsage(cleaned.apps)
       IN  IF CleanupDue(now, m_lastCleanup)
           THEN \E candidates \in SortCandidates(cleaned.apps, cleaned.current) :
                   LET st == enforceResourceLimits(cleaned, m_totalAllocated, candidates)
                   IN  /\ Applied(st.am)
                       /\ m_lastCleanup' = now
                       /\ g_appCall' = [op |-> "update", ret |-> "OS_OK",
                                        cleanup |-> TRUE, usage |-> usage,
                                        above |-> AboveCeiling(usage, m_totalAllocated),
                                        foreground |-> cleaned.current,
                                        candidates |-> Len(candidates),
                                        killed |-> st.killed]
           ELSE /\ g_appCall' = [op |-> "update", ret |-> "OS_OK",
                                 cleanup |-> FALSE, usage |-> usage,
                                 above |-> FALSE, foreground |-> m_currentAppId,
                                 candidates |-> 0, killed |-> <<>>]
                /\ UNCHANGED <<m_runningApps, m_currentAppId, m_totalLaunches, m_totalKills,
                               m_lastCleanup, g_appEvents>>
    /\ UNCHANGED <<a_it, m_initialized, m_appFactories, m_maxConcurrentApps, g_refused,
                   g_updated, g_threw>>
    /\ Kernel(IF CleanupDue(now, m_lastCleanup) THEN <<"cleanup", "limits", "done">>
              ELSE <<"done">>)
    /\ UNCHANGED <<memVars, clockVars, schedVars, evVars>>

AppInit ==
    /\ m_initialized = FALSE
    /\ m_appFactories = {}
    /\ m_runningApps = <<>>
    /\ m_currentAppId = NoAppId
    /\ m_maxConcurrentApps = OS_MAX_APPS
    /\ m_totalLaunches = 0
    /\ m_totalKills = 0
    /\ m_lastCleanup = U32Zero
    /\ a_pc = "idle"
    /\ a_it = NoAppId
    /\ g_appEvents = <<>>
    /\ g_updated = {}
    /\ g_threw = {}
    /\ g_refused = [id |-> NoAppId, freed |-> FALSE]
    /\ g_appCall = [op |-> "none", ret |-> "OS_OK"]

\* The calls of AppSpec: the system registers, launches, switches, pauses, resumes
\* and kills apps
Initialize == initialize

RegisterApp == \E appId \in AppIds : registerApp(appId)

UnregisterApp == \E appId \in AppIds : unregisterApp(appId)

SetMaxConcurrentApps == \E maxApps \in Ceilings : setMaxConcurrentApps(maxApps)

LaunchApp ==
    /\ m_totalLaunches < MaxLaunches
    /\ \E appId \in AppIds, yields \in {NoInstance} \cup PlainInstances :
          LaunchAppCall(appId, yields)

KillApp == \E appId \in AppIds : KillAppCall(appId)

SwitchToApp == \E appId \in AppIds : SwitchToAppCall(appId)

PauseApp == \E appId \in AppIds : pauseApp(appId)

ResumeApp == \E appId \in AppIds : resumeApp(appId)

\* A caller takes the instance of a held id from AppManager::getApp and calls its
\* public start() or stop() itself; r is the outcome of that call
HeldCall(appId, op, r) ==
    /\ AppIdle
    /\ appId \in DOMAIN m_runningApps
    /\ m_runningApps' = [m_runningApps EXCEPT ![appId] = r.app]
    /\ g_appEvents' = r.events
    /\ g_appCall' = [op |-> op, id |-> appId, ret |-> r.ret]
    /\ UNCHANGED <<m_initialized, m_appFactories, m_currentAppId, m_maxConcurrentApps,
                   m_totalLaunches, m_totalKills, m_lastCleanup, g_refused>>

StartApp ==
    \E appId \in DOMAIN m_runningApps :
       HeldCall(appId, "start", start(m_runningApps[appId], appId))

StopApp ==
    \E appId \in DOMAIN m_runningApps :
       HeldCall(appId, "stop", stop(m_runningApps[appId], appId))

\* The calls of AppUpdateSpec: apps that start are launched and resumed, time
\* passes, and AppManager::update is called
UpdateLaunchApp ==
    /\ m_totalLaunches < UpdateMaxLaunches
    /\ \E appId \in AppIds, yields \in SizedInstances : LaunchAppCall(appId, yields)

\* the ids are registered in their order
UpdateRegisterApp ==
    /\ Cardinality(m_appFactories) < MaxAppIds
    /\ registerApp(Cardinality(m_appFactories) + 1)

\* Time passes between two calls, until the periodic cleanup is due
AppTick ==
    /\ a_pc = "idle"
    /\ m_initialized
    /\ ~CleanupDue(now, m_lastCleanup)
    /\ Tick

\* setMaxConcurrentApps called before the first launch; the ceiling stays as it is
\* from then on
SetCeiling ==
    /\ m_totalLaunches = 0
    /\ SetMaxConcurrentApps

\* Bounds of the exploration of the kernel tick
KernelMaxTasks == 1         \* tasks scheduled in one behaviour
KernelMaxListeners == 1     \* listeners subscribed
KernelMaxPublished == 1     \* events accepted
KernelMaxApps == 2          \* ids registered
KernelMaxLaunches == 2      \* launchApp calls that construct an instance

\* OSManager::start, after OSManager::initialize has initialized the subsystems
OsStart ==
    /\ k_pc = "idle"
    /\ m_initialized
    /\ m_running' = TRUE
    /\ UNCHANGED <<k_pc, g_tick>>
    /\ UNCHANGED <<memVars, clockVars, schedVars, evVars, appVars>>

\* OSManager::update, lines 83-99: the tick starts (or returns OS_ERROR_GENERIC)
KernelUpdate ==
    /\ k_pc = "idle"
    /\ u_pc = "idle" /\ p_pc = "idle" /\ a_pc = "idle"
    /\ IF m_running
       THEN /\ k_pc' = "scheduler"
            /\ g_tick' = <<>>
       ELSE UNCHANGED <<k_pc, g_tick>>
    /\ UNCHANGED m_running
    /\ UNCHANGED <<memVars, clockVars, schedVars, evVars, appVars>>

\* The calls made before the first tick: a one-shot task is scheduled, a listener
\* subscribes, an event is published, apps of normal priority are registered,
\* launched and resumed; time passes between the ticks until the periodic cleanup is due
KernelScheduleOnce ==
    /\ k_pc = "idle" /\ ~m_running
    /\ m_nextTaskId < KernelMaxTasks
    /\ scheduleOnce(TRUE, 1, 0)

KernelSubscribe ==
    /\ k_pc = "idle" /\ ~m_running
    /\ m_nextListenerId < KernelMaxListeners
    /\ subscribe(1, TRUE, 5, FALSE)

KernelPublishAsync ==
    /\ k_pc = "idle" /\ ~m_running
    /\ m_eventsPublished < KernelMaxPublished
    /\ publishAsync(1)

KernelInitialize ==
    /\ k_pc = "idle"
    /\ ~m_initialized
    /\ initialize

KernelRegisterApp ==
    /\ k_pc = "idle" /\ ~m_running
    /\ Cardinality(m_appFactories) < KernelMaxApps
    /\ registerApp(Cardinality(m_appFactories) + 1)

KernelLaunchApp ==
    /\ k_pc = "idle" /\ ~m_running
    /\ m_totalLaunches < KernelMaxLaunches
    /\ \E appId \in 1..KernelMaxApps :
          \E yields \in {i \in SizedInstances : i.priority = APP_NORMAL} :
             LaunchAppCall(appId, yields)

KernelResumeApp ==
    /\ k_pc = "idle" /\ ~m_running
    /\ \E appId \in 1..KernelMaxApps : resumeApp(appId)

KernelTick ==
    /\ k_pc = "idle" /\ m_running
    /\ a_pc = "idle" /\ p_pc = "idle"
    /\ ~CleanupDue(now, m_lastCleanup)
    /\ Tick

\* The three calls of the tick, each at its place
KernelSchedulerBegin == k_pc = "scheduler" /\ UpdateBegin

KernelSchedulerStep == k_pc = "scheduler" /\ UpdateStep

KernelSchedulerEnd == k_pc = "scheduler" /\ UpdateEnd

KernelEventsBegin == k_pc = "events" /\ ProcessBegin

KernelEventsStep == k_pc = "events" /\ processStep(QueueListenerEffects, KernelMaxPublished)

KernelEventsEnd == k_pc = "events" /\ ProcessEnd

KernelAppsBegin == k_pc = "apps" /\ AppUpdateBegin

KernelAppsStep == k_pc = "apps" /\ AppUpdateStep

KernelAppsEnd == k_pc = "apps" /\ AppUpdateEnd

MemInit ==
    /\ m_activeBlocks = <<>>
    /\ m_totalAllocated = 0
    /\ m_peakAllocated = 0
    /\ m_allocationCount = 0
    /\ m_deallocationCount = 0
    /\ m_pools = [p \in 1..NumPools |-> NewPool(p)]
    /\ heapUsed = {}
    /\ g_outstanding = {}
    /\ g_memCall = [op |-> "none", size |-> 0, ptr |-> NULL, ret |-> FALSE]

\* what the Memory Manager's calls leave alone
MemFrame == UNCHANGED <<clockVars, schedVars, evVars, appVars, osVars>>

Allocate == \E size \in AllocSizes : allocate(size) /\ MemFrame

Deallocate == \E ptr \in Pointers : deallocate(ptr) /\ MemFrame

OsInit ==
    /\ m_running = FALSE
    /\ k_pc = "idle"
    /\ g_tick = <<>>

Init == MemInit /\ SchedInit /\ EventInit /\ AppInit /\ OsInit

MemNext ==
    \/ Allocate
    \/ Deallocate

MemSpec == Init /\ [][MemNext]_vars

\* The Memory Manager with the calls that go to a pool directly
MemRuns == g_memCall.op # "crashed"

PoolMaxAllocs == 2       \* allocate calls that succeed in one behaviour with pool calls

PoolAllocate == MemRuns /\ m_allocationCount < PoolMaxAllocs /\ Allocate

PoolDeallocate == MemRuns /\ Deallocate

PoolDeallocateCrashes == MemRuns /\ \E ptr \in Pointers : DeallocateCorruptsHeap(ptr) /\ MemFrame

AllocateFromPool == MemRuns /\ \E poolIndex \in PoolIndexes : allocateFromPool(poolIndex) /\ MemFrame

DeallocateFromPool ==
    MemRuns /\ \E ptr \in Pointers, poolIndex \in PoolIndexes :
                   deallocateFromPool(ptr, poolIndex) /\ MemFrame

PoolNext ==
    \/ PoolAllocate
    \/ PoolDeallocate
    \/ PoolDeallocateCrashes
    \/ AllocateFromPool
    \/ DeallocateFromPool

PoolSpec == Init /\ [][PoolNext]_vars

SchedNext ==
    \/ ScheduleOnce
    \/ SchedulePeriodic
    \/ CancelTask
    \/ SuspendTask
    \/ ResumeTask
    \/ UpdateBegin
    \/ UpdateStep
    \/ UpdateEnd
    \/ Tick

SchedSpec == Init /\ [][SchedNext]_vars

\* The task table up to its capacity and the id counter up to its wrap
CapacityNext ==
    \/ CapacityScheduleOnce
    \/ CapacitySchedulePeriodic
    \/ CapacityCancelTask
    \/ ChurnTasks

CapacitySpec == Init /\ [][CapacityNext]_vars

\* The scheduler with callbacks that cancel and schedule tasks
CancellingNext ==
    \/ ReentrantScheduleOnce
    \/ ReentrantSchedulePeriodic
    \/ UpdateBegin
    \/ CancellingUpdateStep
    \/ UpdatePastEnd
    \/ UpdateEnd

CancellingSpec == Init /\ [][CancellingNext]_vars

\* The scheduler with callbacks that call it back: periodic and one-shot tasks that
\* are due at once, suspended and resumed from outside and from inside a pass
ReentrantNext ==
    \/ ReentrantScheduleOnce
    \/ ReentrantSchedulePeriodic
    \/ SuspendTask
    \/ ResumeTask
    \/ UpdateBegin
    \/ ReentrantUpdateStep
    \/ UpdateEnd
    \/ Tick

ReentrantSpec == Init /\ [][ReentrantNext]_vars

EventNext ==
    \/ Subscribe
    \/ Unsubscribe
    \/ UnsubscribeAll
    \/ PublishSync
    \/ PublishAsync
    \/ ClearQueue
    \/ ProcessBegin
    \/ ProcessStep
    \/ ProcessEnd

EventSpec == Init /\ [][EventNext]_vars

\* The Event System with listeners whose callbacks unsubscribe during a delivery
UnsubscribeNext ==
    \/ Subscribe
    \/ Unsubscribe
    \/ UnsubscribingPublishSync

UnsubscribeSpec == Init /\ [][UnsubscribeNext]_vars

\* The listener lists up to the configured maximum and beyond
ListenerLimitNext ==
    \/ LimitSubscribe
    \/ Unsubscribe
    \/ UnsubscribeAll

ListenerLimitSpec == Init /\ [][ListenerLimitNext]_vars

QueueNext ==
    \/ QueueSubscribe
    \/ QueuePublishAsync
    \/ QueueProcessBegin
    \/ QueueProcessStep
    \/ ProcessEnd

QueueSpec == Init /\ [][QueueNext]_vars

DrainNext ==
    \/ DrainSubscribe
    \/ DrainUnsubscribe
    \/ DrainPublishAsync
    \/ DrainProcessBegin
    \/ DrainProcessStep
    \/ DrainProcessEnd

\* processEvents keeps being called (the kernel calls it in every tick) and, once
\* called, runs to its end
AppNext ==
    \/ Initialize
    \/ RegisterApp
    \/ UnregisterApp
    \/ SetMaxConcurrentApps
    \/ LaunchApp
    \/ KillApp
    \/ SwitchToApp
    \/ PauseApp
    \/ ResumeApp

AppSpec == Init /\ [][AppNext]_vars

\* The lifecycle calls on held instances, made through the AppManager or directly
LifecycleNext ==
    \/ Initialize
    \/ UpdateRegisterApp
    \/ UpdateLaunchApp
    \/ StartApp
    \/ PauseApp
    \/ ResumeApp
    \/ StopApp

LifecycleSpec == Init /\ [][LifecycleNext]_vars

AppUpdateNext ==
    \/ Initialize
    \/ UpdateRegisterApp
    \/ UpdateLaunchApp
    \/ ResumeApp
    \/ AppTick
    \/ AppUpdateBegin
    \/ AppUpdateStep
    \/ AppUpdateEnd

AppUpdateSpec == Init /\ [][AppUpdateNext]_vars

\* The Application Manager with a ceiling that is set before the first launch
CeilingNext ==
    \/ Initialize
    \/ RegisterApp
    \/ SetCeiling
    \/ LaunchApp
    \/ KillApp
    \/ SwitchToApp
    \/ PauseApp
    \/ ResumeApp
    \/ AppUpdateBegin
    \/ AppUpdateStep
    \/ AppUpdateEnd

CeilingSpec == Init /\ [][CeilingNext]_vars

\* The kernel: OSManager::update is called again and again, and between two ticks
\* the system schedules tasks, subscribes, publishes and launches apps
KernelNext ==
    \/ OsStart
    \/ KernelUpdate
    \/ KernelScheduleOnce
    \/ KernelSubscribe
    \/ KernelPublishAsync
    \/ KernelInitialize
    \/ KernelRegisterApp
    \/ KernelLaunchApp
    \/ KernelResumeApp
    \/ KernelTick
    \/ KernelSchedulerBegin
    \/ KernelSchedulerStep
    \/ KernelSchedulerEnd
    \/ KernelEventsBegin
    \/ KernelEventsStep
    \/ KernelEventsEnd
    \/ KernelAppsBegin
    \/ KernelAppsStep
    \/ KernelAppsEnd

KernelSpec == Init /\ [][KernelNext]_vars

DrainSpec ==
    /\ Init /\ [][DrainNext]_vars
    /\ WF_vars(DrainProcessBegin) /\ WF_vars(DrainProcessStep) /\ WF_vars(DrainProcessEnd)

(***************************************************************************)
(* Claims about the Memory Manager (checked under MemSpec)                 *)
(***************************************************************************)

\* C1: after any sequence of allocate/deallocate calls, getTotalAllocated() is the
\* sum of the requested sizes of the allocations not yet successfully deallocated,
\* and checkLeaks() is the number of those allocations.
C1_TotalIsOutstanding ==
    /\ getTotalAllocated = SumSizes(g_outstanding)
    /\ checkLeaks = Cardinality(g_outstanding)

\* C1 witness: two allocations are outstanding after a successful deallocate.
C1_Witness ==
    /\ Cardinality(g_outstanding) >= 2
    /\ m_deallocationCount >= 1
    /\ g_memCall.op = "deallocate" /\ g_memCall.ret

Tracked(ptr) == \E i \in 1..Len(m_activeBlocks) : m_activeBlocks[i].ptr = ptr

\* C2: deallocate(p) with p not in the tracked-block registry (null, never returned
\* by allocate, or already deallocated) returns false and changes neither the
\* registry, the byte totals, the counters nor the pools' bitmaps.
C2_UntrackedFreeRejected ==
    [][ (g_memCall'.op = "deallocate" /\ ~Tracked(g_memCall'.ptr))
        => /\ g_memCall'.ret = FALSE
           /\ UNCHANGED <<m_activeBlocks, m_totalAllocated, m_peakAllocated,
                          m_allocationCount, m_deallocationCount, m_pools, heapUsed>> ]_vars

\* C2 witness: a second deallocate of an address already given back was rejected
\* while other blocks are tracked.
C2_Witness ==
    /\ g_memCall.op = "deallocate" /\ ~g_memCall.ret
    /\ g_memCall.ptr # NULL
    /\ ~Tracked(g_memCall.ptr)
    /\ m_deallocationCount >= 1
    /\ Len(m_activeBlocks) >= 1

(***************************************************************************)
(* Claims about the Task Scheduler (checked under SchedSpec)               *)
(***************************************************************************)

\* C3: of two tasks READY and due when an update pass starts, the one of lower
\* priority has its callback invoked in that pass only after the callback of the one
\* of higher priority was invoked in the same pass.
C3_HigherPriorityFirst ==
    \A i \in 1..Len(g_passLog) : \A a \in g_passDue :
        a.priority > g_passLog[i].priority
            => \E k \in 1..(i - 1) : g_passLog[k].id = a.id

\* C3 witness: a pass has invoked two callbacks of tasks that were both due at its
\* start, the higher priority first.
C3_Witness ==
    /\ Len(g_passLog) = 2
    /\ g_passLog[1].priority > g_passLog[2].priority
    /\ \A i \in 1..2 : \E a \in g_passDue : a.id = g_passLog[i].id

\* C4: a one-shot task is not executed by a pass that starts before its deadline
\* (the time it was scheduled plus its delay), its callback is invoked at most once
\* (once when the scheduler retires it), and it has left the table when the pass that
\* executed it returns.
C4_OneShotOnTimeOnce ==
    /\ \A i \in 1..Len(g_passLog) : g_passLog[i].period = 0 => ~g_passLog[i].early
    /\ \A id \in TaskIds : g_oneShotRuns[id] <= 1
    /\ u_pc = "idle" =>
          \A i \in 1..Len(m_tasks) :
              m_tasks[i].period = 0 =>
                  m_tasks[i].state # "COMPLETED" /\ g_oneShotRuns[m_tasks[i].id] = 0

\* C5: a periodic task of period P whose callback ran at time T is not invoked by a
\* pass that starts before T + P; after a run it is READY again, never COMPLETED, and
\* cleanup never removes it.
C5_PeriodicNotBeforePeriod ==
    /\ \A i \in 1..Len(g_passLog) :
          (g_passLog[i].period > 0 /\ g_passLog[i].runs > 0) => ~g_passLog[i].early
    /\ \A i \in 1..Len(m_tasks) :
          m_tasks[i].period > 0 => m_tasks[i].state # "COMPLETED" /\ ~m_tasks[i].autoDelete

(***************************************************************************)
(* Claims about the Event System (checked under EventSpec and QueueSpec)   *)
(***************************************************************************)

\* C6: for every event type the listener sequence is sorted by descending priority
\* in every reachable state (after any subscribe, unsubscribe or one-shot pruning),
\* and every delivery, by publishSync or by processEvents, invokes the listeners in
\* descending-priority order.
C6_DescendingPriority ==
    /\ \A t \in EventTypes : \A i, j \in 1..Len(m_listeners[t]) :
          i < j => m_listeners[t][i].priority >= m_listeners[t][j].priority
    /\ \A i, j \in 1..Len(g_notifyLog) :
          i < j => g_notifyLog[i].priority >= g_notifyLog[j].priority

\* C6 witness: a delivery has invoked a listener of priority 10 before one of
\* priority 5 that had subscribed earlier.
C6_Witness ==
    /\ Len(g_notifyLog) = 2
    /\ g_notifyLog[1].priority = 10 /\ g_notifyLog[2].priority = 5
    /\ g_notifyLog[1].id > g_notifyLog[2].id

\* C7: among the listeners of one event type that have equal priority, the one
\* subscribed earlier (the smaller id) stands before, and is invoked before, the one
\* subscribed later.
C7_TiesKeepInsertionOrder ==
    /\ \A t \in EventTypes : \A i, j \in 1..Len(m_listeners[t]) :
          (i < j /\ m_listeners[t][i].priority = m_listeners[t][j].priority)
              => m_listeners[t][i].id < m_listeners[t][j].id
    /\ \A i, j \in 1..Len(g_notifyLog) :
          (i < j /\ g_notifyLog[i].priority = g_notifyLog[j].priority)
              => g_notifyLog[i].id < g_notifyLog[j].id

\* C8: the callback of a listener subscribed with oneShot = true is invoked at most
\* once in total (once, as soon as an event of its type has been delivered).
C8_OneShotOnce ==
    \A t \in EventTypes : \A i \in 1..Len(m_listeners[t]) :
        m_listeners[t][i].oneShot => g_calls[m_listeners[t][i].id] <= 1

\* C9: the queue never holds more than OS_EVENT_QUEUE_SIZE events, and a publishAsync
\* made while it holds OS_EVENT_QUEUE_SIZE events returns false and leaves the queue
\* (and the count of published events) unchanged.
C9_QueueNeverOverfull ==
    [][ /\ Len(m_eventQueue') <= OS_EVENT_QUEUE_SIZE
        /\ (Len(m_eventQueue) = OS_EVENT_QUEUE_SIZE /\ g_evCall'.op = "publishAsync")
              => /\ g_evCall'.ret = 0
                 /\ UNCHANGED <<m_eventQueue, m_eventsPublished>> ]_vars

\* C9 witness: publishAsync has returned false on a queue of OS_EVENT_QUEUE_SIZE events.
C9_Witness ==
    /\ g_evCall.op = "publishAsync" /\ g_evCall.ret = 0
    /\ Len(m_eventQueue) = OS_EVENT_QUEUE_SIZE

\* C10: a processEvents call delivers at most maxEventsPerFrame events, whether they
\* were queued before the call or by a listener during it, and returns their number;
\* the delivered events followed by the events still queued are in the order in which
\* publishAsync accepted them, none missing (the data of an event is the number of
\* its acceptance).
C10_BatchInOrder ==
    /\ eventsProcessed <= maxEventsPerFrame
    /\ Len(g_delivered) <= maxEventsPerFrame
    /\ p_pc = "drain" => Len(g_delivered) = eventsProcessed
    /\ (p_pc = "idle" /\ g_evCall.op = "processEvents") => g_evCall.ret = Len(g_delivered)
    /\ LET all == g_delivered \o m_eventQueue
       IN  \A i \in 1..(Len(all) - 1) : all[i + 1].data = all[i].data + 1

\* C10 witness: a call has delivered maxEventsPerFrame events, the last of them
\* published by a listener during the call, and stops with events still queued.
C10_Witness ==
    /\ p_pc = "drain"
    /\ eventsProcessed = maxEventsPerFrame
    /\ m_eventQueue # <<>>
    /\ g_accepted > 0
    /\ g_delivered[maxEventsPerFrame].data > m_eventsPublished - g_accepted

\* C11: with processEvents called again and again and neither clearQueue nor shutdown
\* called, no accepted event is lost or duplicated (the queue holds exactly the
\* accepted events not yet delivered, in order), each turn of processEvents delivers
\* the oldest of them to exactly the listeners subscribed to its type at that
\* moment, each invoked once, and every accepted event is eventually delivered.
C11_AcceptedEventuallyDelivered ==
    /\ [](/\ Len(m_eventQueue) = m_eventsPublished - m_eventsProcessed
          /\ \A i \in 1..Len(m_eventQueue) : m_eventQueue[i].data = m_eventsProcessed + i)
    /\ [][ m_eventsProcessed' # m_eventsProcessed
             => LET event == Head(m_eventQueue)
                    subscribed == m_listeners[event.type]
                IN  /\ m_eventsProcessed' = m_eventsProcessed + 1
                    /\ g_delivered' = Append(g_delivered, event)
                    /\ Len(g_notifyLog') = Len(subscribed)
                    /\ \A i \in 1..Len(subscribed) : g_notifyLog'[i].id = subscribed[i].id ]_vars
    /\ \A n \in 1..DrainMaxPublished :
          (m_eventsPublished >= n) ~> (m_eventsProcessed >= n)

\* C11 witness: the third accepted event, one a listener published during a
\* delivery, has been delivered to two listeners.
C11_Witness ==
    /\ m_eventsProcessed = DrainMaxPublished
    /\ Len(g_notifyLog) = 2
    /\ g_delivered # <<>>
    /\ g_delivered[Len(g_delivered)].data = DrainMaxPublished
    /\ g_accepted > 0

\* C12: when publishSync returns, it has invoked every listener subscribed to the
\* event's type exactly once, in list order, whether or not some of them threw, and
\* its result is the number of callbacks that completed without throwing.
C12_AllListenersInvoked ==
    g_evCall.op = "publishSync" =>
        LET subscribed == m_listeners[g_evCall.type]
        IN  /\ Len(g_notifyLog) = Len(subscribed)
            /\ \A i \in 1..Len(subscribed) : g_notifyLog[i].id = subscribed[i].id
            /\ g_evCall.ret = Cardinality({i \in 1..Len(g_notifyLog) : g_notifyLog[i].completed})

\* C12 witness: publishSync has returned 1 after the first of two listeners threw
\* and the second completed.
C12_Witness ==
    /\ g_evCall.op = "publishSync" /\ g_evCall.ret = 1
    /\ Len(g_notifyLog) = 2
    /\ ~g_notifyLog[1].completed /\ g_notifyLog[2].completed

(***************************************************************************)
(* Claims about the Application Manager (checked under AppSpec and         *)
(* AppUpdateSpec)                                                          *)
(***************************************************************************)
\* C13: launchApp of a registered id that the running set does not hold returns
\* OS_ERROR_BUSY and changes nothing when the running set holds
\* m_maxConcurrentApps instances (or more); when the same call is repeated after
\* killApp has removed an instance and the set is below the ceiling, it succeeds
\* (for an instance that starts): the id is in the running set and is the
\* foreground.
C13_BusyAtCeiling ==
    [][ (/\ g_appCall'.op = "launchApp"
         /\ m_initialized
         /\ g_appCall'.id \in m_appFactories
         /\ g_appCall'.id \notin DOMAIN m_runningApps)
        => IF Cardinality(DOMAIN m_runningApps) >= m_maxConcurrentApps
           THEN /\ g_appCall'.ret = "OS_ERROR_BUSY"
                /\ g_appEvents' = <<>>
                /\ UNCHANGED <<m_initialized, m_appFactories, m_runningApps,
                               m_currentAppId, m_maxConcurrentApps, m_totalLaunches,
                               m_totalKills, m_lastCleanup>>
           ELSE (g_appCall'.retry /\ Starts(g_appCall'.yields))
                => /\ g_appCall'.ret = "OS_OK"
                   /\ g_appCall'.id \in DOMAIN m_runningApps'
                   /\ m_currentAppId' = g_appCall'.id
                   /\ m_totalLaunches' = m_totalLaunches + 1 ]_vars

\* a launch refused as busy was repeated after a kill and succeeded, and the
\* running set is at the ceiling again
C13_Witness ==
    /\ g_appCall.op = "launchApp"
    /\ g_appCall.retry
    /\ g_appCall.ret = "OS_OK"
    /\ m_currentAppId = g_appCall.id
    /\ Cardinality(DOMAIN m_runningApps) = m_maxConcurrentApps

\* C14: launchApp of an id the running set holds, as the foreground or paused in
\* the background, never calls the factory and never replaces or destroys the
\* instance held: it returns OS_OK and only makes that instance the foreground,
\* and when the id is the foreground already the call changes nothing.
C14_LaunchOfHeldSwitches ==
    [][ (/\ g_appCall'.op = "launchApp"
         /\ m_initialized
         /\ g_appCall'.id \in DOMAIN m_runningApps)
        => /\ ~g_appCall'.factory
           /\ ~g_appCall'.replaced
           /\ g_appCall'.ret = "OS_OK"
           /\ m_currentAppId' = g_appCall'.id
           /\ DOMAIN m_runningApps' = DOMAIN m_runningApps
           /\ m_totalLaunches' = m_totalLaunches
           /\ m_currentAppId = g_appCall'.id
                 => UNCHANGED <<m_runningApps, m_currentAppId>> ]_vars

\* C15: when launchApp gets as far as creating the instance and the factory gives
\* none, or initialize() or start() reports an error, launchApp returns an error
\* (OS_ERROR_GENERIC for no instance, the step's own code for initialize and
\* start), the id is not added, and the running set with every app's state, the
\* foreground id and the counters are unchanged.
C15_FailedLaunchLeavesNothing ==
    [][ (/\ g_appCall'.op = "launchApp"
         /\ m_initialized
         /\ ~isAppRunning(m_runningApps, g_appCall'.id)
         /\ Cardinality(DOMAIN m_runningApps) < m_maxConcurrentApps
         /\ ~(g_appCall'.id \in m_appFactories /\ Starts(g_appCall'.yields)))
        => LET yields == g_appCall'.yields
           IN  /\ g_appCall'.ret =
                     IF g_appCall'.id \notin m_appFactories \/ ~yields.made
                     THEN "OS_ERROR_GENERIC"
                     ELSE IF yields.initialize # "OS_OK" THEN yields.initialize
                     ELSE yields.start
               /\ g_appCall'.ret # "OS_OK"
               /\ UNCHANGED <<m_runningApps, m_currentAppId, m_totalLaunches,
                              m_totalKills, m_appFactories>> ]_vars

\* start() of a new instance failed while another app was the foreground
C15_Witness ==
    /\ g_appCall.op = "launchApp"
    /\ g_appCall.factory
    /\ g_appCall.yields.made
    /\ g_appCall.yields.initialize = "OS_OK"
    /\ g_appCall.ret = "OS_ERROR_GENERIC"
    /\ g_appCall.id \notin DOMAIN m_runningApps
    /\ m_currentAppId \in DOMAIN m_runningApps

\* C16: after killApp of the foreground app has returned OS_OK, the foreground id
\* is empty only if the running set is empty; otherwise the foreground is the
\* first of the remaining instances in the iteration order of the running set.
C16_KillForegroundPicksFirst ==
    (g_appCall.op = "killApp" /\ g_appCall.ret = "OS_OK" /\ g_appCall.foreground)
    => IF DOMAIN m_runningApps = {}
       THEN m_currentAppId = NoAppId
       ELSE m_currentAppId = Begin(m_runningApps)

\* C17: switchToApp of an id the running set holds returns OS_OK; when the id is
\* not the foreground, the previous foreground is PAUSED afterwards if it was
\* RUNNING, and the id is the foreground and RUNNING (resumed if it was PAUSED);
\* when the id is the foreground already, nothing changes.
C17_SwitchMakesForeground ==
    [][ (/\ g_appCall'.op = "switchToApp"
         /\ m_initialized
         /\ g_appCall'.id \in DOMAIN m_runningApps)
        => LET appId == g_appCall'.id
               previous == m_currentAppId
           IN  /\ g_appCall'.ret = "OS_OK"
               /\ IF previous = appId
                  THEN UNCHANGED <<m_runningApps, m_currentAppId>>
                  ELSE /\ m_currentAppId' = appId
                       /\ DOMAIN m_runningApps' = DOMAIN m_runningApps
                       /\ m_runningApps'[appId].state = "RUNNING"
                       /\ isAppRunning(m_runningApps, previous)
                             => m_runningApps'[previous].state = "PAUSED" ]_vars

\* C18: while the iteration of one AppManager::update pass is in progress, the
\* running set and the foreground id are not modified: as long as the iterator
\* has apps still to visit, no app is removed (an app that signals exit-requested
\* is removed only after every app has had its update() call).
C18_NoRemovalWhileIterating ==
    [][ (a_pc = "loop" /\ a_it # NoAppId /\ Successor(m_runningApps, a_it) # NoAppId)
        => /\ DOMAIN m_runningApps' = DOMAIN m_runningApps
           /\ m_currentAppId' = m_currentAppId ]_vars

\* C19: a failure of an app's update() does not propagate: in the step in which an
\* app's update() throws, the pass goes on (AppManager::update does not crash, and
\* returns OS_OK when it ends), an EVENT_APP_ERROR naming the app is published,
\* the app is stopped and removed, and every other app is still in the running
\* set.
C19_UpdateFailureContained ==
    [][ /\ \A appId \in g_threw' \ g_threw :
              /\ a_pc' = "loop"
              /\ \E i \in 1..Len(g_appEvents') :
                     g_appEvents'[i] = AppEvent("EVENT_APP_ERROR", appId)
              /\ \E i \in 1..Len(g_appEvents') :
                     g_appEvents'[i] = AppEvent("EVENT_APP_EXIT", appId)
              /\ DOMAIN m_runningApps' = DOMAIN m_runningApps \ {appId}
        /\ (a_pc = "loop" /\ a_pc' = "idle") => g_appCall'.ret = "OS_OK" ]_vars

\* C20: when the periodic cleanup of AppManager::update finds the aggregate memory
\* usage of the apps above OS_APP_HEAP_SIZE, enforceResourceLimits kills only apps
\* that are not the foreground, in ascending priority (no app left in the
\* background has a lower priority than one that was killed), one at a time,
\* each kill made while the usage was not below 80% of the ceiling, and it stops
\* when the usage is below 80% of the ceiling or no candidate remains; the
\* foreground app is never killed and stays the foreground.
C20_LimitsKillBackgroundAscending ==
    (/\ a_pc = "idle"
     /\ g_appCall.op = "update"
     /\ g_appCall.ret = "OS_OK"
     /\ g_appCall.cleanup
     /\ g_appCall.usage > OS_APP_HEAP_SIZE)
    => LET killed == g_appCall.killed
           foreground == g_appCall.foreground
           usage == getTotalMemoryUsage(m_runningApps)
           background == DOMAIN m_runningApps \ {foreground}
       IN  /\ \A k \in 1..Len(killed) :
                  /\ killed[k].id # foreground
                  /\ killed[k].id \notin DOMAIN m_runningApps
                  /\ 10 * killed[k].usage >= 8 * OS_APP_HEAP_SIZE
                  /\ \A j \in 1..Len(killed) :
                         k < j => /\ killed[k].priority <= killed[j].priority
                                  /\ killed[k].id # killed[j].id
                                  /\ killed[j].usage < killed[k].usage
                  /\ \A id \in background :
                         m_runningApps[id].priority >= killed[k].priority
           /\ m_currentAppId = foreground
           /\ \/ 10 * usage < 8 * OS_APP_HEAP_SIZE
              \/ background = {}
           /\ Len(killed) = 0 => g_appCall.candidates = 0

\* the cleanup found three apps using more than the ceiling, killed the background
\* app of lower priority and stopped, leaving the other background app
C20_Witness ==
    /\ a_pc = "idle"
    /\ g_appCall.op = "update"
    /\ g_appCall.ret = "OS_OK"
    /\ g_appCall.cleanup
    /\ g_appCall.usage > OS_APP_HEAP_SIZE
    /\ Len(g_appCall.killed) = 1
    /\ g_appCall.candidates = 2
    /\ m_currentAppId \in DOMAIN m_runningApps
    /\ \E id \in DOMAIN m_runningApps \ {m_currentAppId} :
           m_runningApps[id].priority > g_appCall.killed[1].priority

\* C21: every instance that leaves the running set, or is destroyed by the
\* assignment of launchApp over the instance held for its id, had stop() applied
\* and is STOPPED when it goes: it was STOPPED before the call, or the stop() of
\* the call took it to STOPPED and published its EVENT_APP_EXIT.  No instance is
\* dropped while RUNNING or PAUSED.
C21_RemovedAfterStop ==
    [][ \A id \in DOMAIN m_runningApps :
           LET erased == id \notin DOMAIN m_runningApps'
               replaced == /\ g_appCall'.op = "launchApp"
                           /\ g_appCall'.id = id
                           /\ g_appCall'.replaced
           IN  (erased \/ replaced)
               => \/ m_runningApps[id].state = "STOPPED"
                  \/ AppEvent("EVENT_APP_EXIT", id) \in Range(g_appEvents') ]_vars

\* the same for the instances that leave the running set alone
C21_ErasedAfterStop ==
    [][ \A id \in DOMAIN m_runningApps :
           id \notin DOMAIN m_runningApps'
           => \/ m_runningApps[id].state = "STOPPED"
              \/ AppEvent("EVENT_APP_EXIT", id) \in Range(g_appEvents') ]_vars

\* C22: in every reachable state m_currentAppId is empty or the id of an entry of
\* m_runningApps.
C22_CurrentIsHeld ==
    m_currentAppId = NoAppId \/ m_currentAppId \in DOMAIN m_runningApps

\* the same where no killApp was ever made, after an update whose periodic cleanup
\* ran: the only removals were those of cleanupStoppedApps
C22_CurrentIsHeldAfterCleanup ==
    (/\ a_pc = "idle"
     /\ g_appCall.op = "update"
     /\ g_appCall.ret = "OS_OK"
     /\ g_appCall.cleanup
     /\ m_totalKills = 0)
    => C22_CurrentIsHeld

\* C23: pauseApp and resumeApp of an initialized AppManager return
\* OS_ERROR_NOT_FOUND for an id that is not in the running set and otherwise the
\* result of the instance's pause() or resume().  pause() returns OS_OK only for
\* a RUNNING instance, which becomes PAUSED, and resume() only for a PAUSED one,
\* which becomes RUNNING, each with its one event; in every other state the call
\* returns an error, publishes nothing and changes nothing.
C23_PauseResumeGuarded ==
    [][ (m_initialized /\ g_appCall'.op \in {"pauseApp", "resumeApp"})
        => LET id == g_appCall'.id
               ret == g_appCall'.ret
               isPause == g_appCall'.op = "pauseApp"
               from == IF isPause THEN "RUNNING" ELSE "PAUSED"
               to == IF isPause THEN "PAUSED" ELSE "RUNNING"
               event == IF isPause THEN "EVENT_APP_SUSPEND" ELSE "EVENT_APP_RESUME"
           IN  /\ m_currentAppId' = m_currentAppId
               /\ IF id \notin DOMAIN m_runningApps
                  THEN /\ ret = "OS_ERROR_NOT_FOUND"
                       /\ m_runningApps' = m_runningApps
                       /\ g_appEvents' = <<>>
                  ELSE IF m_runningApps[id].state = from
                  THEN /\ ret = "OS_OK"
                       /\ m_runningApps' = [m_runningApps EXCEPT ![id].state = to]
                       /\ g_appEvents' = <<AppEvent(event, id)>>
                  ELSE /\ ret # "OS_OK"
                       /\ m_runningApps' = m_runningApps
                       /\ g_appEvents' = <<>> ]_vars

\* pauseApp was refused for an app that is held PAUSED in the background of another
C23_Witness ==
    /\ g_appCall.op = "pauseApp"
    /\ g_appCall.ret = "OS_ERROR_GENERIC"
    /\ g_appCall.id \in DOMAIN m_runningApps
    /\ m_runningApps[g_appCall.id].state = "PAUSED"
    /\ m_currentAppId \in DOMAIN m_runningApps \ {g_appCall.id}
    /\ g_appEvents = <<>>

\* the event of a lifecycle call's own kind
OwnEvent(op) ==
    CASE op = "start" -> "EVENT_APP_LAUNCH"
      [] op = "pauseApp" -> "EVENT_APP_SUSPEND"
      [] op = "resumeApp" -> "EVENT_APP_RESUME"
      [] op = "stop" -> "EVENT_APP_EXIT"

\* C24: a start(), pause(), resume() or stop() of a held instance that changes
\* its state publishes exactly one event, the one of its own kind (launch,
\* suspend, resume, exit); a call that leaves the state as it was publishes
\* nothing.
C24_OneEventOfOwnKind ==
    [][ (/\ g_appCall'.op \in {"start", "pauseApp", "resumeApp", "stop"}
         /\ g_appCall'.id \in DOMAIN m_runningApps)
        => LET id == g_appCall'.id
           IN  IF m_runningApps'[id].state # m_runningApps[id].state
               THEN g_appEvents' = <<AppEvent(OwnEvent(g_appCall'.op), id)>>
               ELSE g_appEvents' = <<>> ]_vars

\* the same, but for the kind of the event of a start() of a PAUSED instance
C24_OneEventPerChange ==
    [][ (/\ g_appCall'.op \in {"start", "pauseApp", "resumeApp", "stop"}
         /\ g_appCall'.id \in DOMAIN m_runningApps)
        => LET id == g_appCall'.id
               resumes == g_appCall'.op = "start" /\ m_runningApps[id].state = "PAUSED"
           IN  IF m_runningApps'[id].state # m_runningApps[id].state
               THEN g_appEvents' = <<AppEvent(IF resumes THEN "EVENT_APP_RESUME"
                                              ELSE OwnEvent(g_appCall'.op), id)>>
               ELSE g_appEvents' = <<>> ]_vars

(***************************************************************************)
(* Further claims about the Task Scheduler (SchedSpec and ReentrantSpec)   *)
(***************************************************************************)

\* the task whose callback a step invokes: the id of the entry it adds to g_passLog
InvokedNow(id) ==
    /\ Len(g_passLog') = Len(g_passLog) + 1
    /\ g_passLog'[Len(g_passLog')].id = id

\* [nextExecution, period] of the task id in the table tasks
ScheduleOf(tasks, id) ==
    LET it == findTask(tasks, id)
    IN  [nextExecution |-> tasks[it].nextExecution, period |-> tasks[it].period]

\* C25: from the suspendTask(id) that returned true to the resumeTask(id) that
\* returns true no update pass invokes the callback of the task, and the
\* suspension leaves its nextExecution and period as they were; also when
\* suspendTask is called by a task callback during a pass, on its own task or on
\* another.
C25_SuspendedNotInvoked ==
    [][ \A id \in TaskIds :
           /\ InvokedNow(id) => ~g_suspended[id]
           /\ (g_suspended'[id] /\ ~g_suspended[id] /\ ~InvokedNow(id))
              => ScheduleOf(m_tasks', id) = ScheduleOf(m_tasks, id) ]_vars

\* the same for the calls of suspendTask made while no pass is in progress
C25_SuspendedFromOutsideNotInvoked ==
    [][ \A id \in TaskIds :
           /\ InvokedNow(id) => ~g_suspended[id]
           /\ (g_suspended'[id] /\ ~g_suspended[id])
              => ScheduleOf(m_tasks', id) = ScheduleOf(m_tasks, id) ]_vars

\* C26: a task cancelTask returned true for is not in the table from then on and
\* no update pass invokes its callback again; cancelTask returns true only for an
\* id that is in the table, and then removes that task and no other.
C26_CancelledNeverInvoked ==
    [][ /\ \A id \in g_cancelled' :
              /\ findTask(m_tasks', id) = 0
              /\ ~InvokedNow(id)
        /\ \A id \in g_cancelled' \ g_cancelled :
              /\ findTask(m_tasks, id) # 0
              /\ m_tasks' = RemoveAt(m_tasks, findTask(m_tasks, id)) ]_vars

\* a task was cancelled after callbacks had run, and the pass in progress has
\* invoked the callback of a task that is left
C26_Witness ==
    /\ \E id \in g_cancelled : g_oneShotRuns[id] = 0 /\ g_wait[id] = 0
    /\ u_pc = "loop"
    /\ Len(g_passLog) = 1
    /\ m_tasksExecuted >= 2

(***************************************************************************)
(* Further claims about the Event System (UnsubscribeSpec)                 *)
(***************************************************************************)

\* the invocations of the listener id that the last delivery made
InvocationsOf(id) == {k \in 1..Len(g_notifyLog) : g_notifyLog[k].id = id}

\* C27: a publishSync that has returned never invoked a listener after an
\* unsubscribe of that listener made by a callback of the same delivery, and it
\* invoked every listener subscribed to the event's type that no callback
\* unsubscribed exactly once: none of them is skipped or invoked twice.
C27_UnsubscribedNotInvoked ==
    (g_evCall.op = "publishSync" /\ p_pc = "idle")
    => /\ \A k \in 1..Len(g_notifyLog) : ~g_notifyLog[k].unsubscribed
       /\ \A i \in 1..Len(g_evCall.found) :
             g_evCall.found[i] \notin g_evCall.unsubscribed
             => Cardinality(InvocationsOf(g_evCall.found[i])) = 1

\* the second part alone: the listeners no callback unsubscribed
C27_NoOtherSkippedOrRepeated ==
    (g_evCall.op = "publishSync" /\ p_pc = "idle")
    => \A i \in 1..Len(g_evCall.found) :
          g_evCall.found[i] \notin g_evCall.unsubscribed
          => Cardinality(InvocationsOf(g_evCall.found[i])) = 1

\* the first part alone: no listener is invoked after its unsubscribe
C27_NotInvokedAfterUnsubscribe ==
    (g_evCall.op = "publishSync" /\ p_pc = "idle")
    => \A k \in 1..Len(g_notifyLog) : ~g_notifyLog[k].unsubscribed

\* C28: a pass that has executed a task and finds more than FrameBudget
\* milliseconds elapsed since it began executes no further task; and when update
\* returns, every task that is READY, executed or not, is still in the table as it
\* was (READY, with its nextExecution), so a due task the pass left is eligible in
\* the next pass.
C28_BudgetEndsPass ==
    [][ /\ (Len(g_passLog) >= 1 /\ \E id \in TaskIds : InvokedNow(id))
           => U32Since(now, u_currentTime) <= FrameBudget
        /\ (u_pc = "loop" /\ u_pc' = "idle")
           => \A i \in 1..Len(m_tasks) :
                 m_tasks[i].state = "READY"
                 => \E k \in 1..Len(m_tasks') : m_tasks'[k] = m_tasks[i] ]_vars

\* a pass has executed one task, which took longer than the budget, and has left
\* the loop although another task is READY and due
C28_Witness ==
    /\ u_pc = "loop"
    /\ Len(g_passLog) = 1
    /\ U32Since(now, u_currentTime) > FrameBudget
    /\ DuePositions = {}
    /\ \E i \in 1..Len(m_tasks) :
          /\ IsDue(m_tasks[i], u_currentTime)
          /\ m_tasks[i].id # g_passLog[1].id
          /\ m_tasks[i].executionCount = 0

\* the ids of the tasks the pass in progress has executed
PassIds == {g_passLog[k].id : k \in 1..Len(g_passLog)}

\* C29: an exception of a task's callback stays inside the scheduler. The pass goes
\* on (update is still in its loop after the step and ends only when no due task is
\* left unexecuted, or on the frame budget of C28), and the task is booked as
\* executed: its executionCount is one higher, a periodic task is READY with
\* nextExecution one period after the clock value at which the callback ended, a
\* one-shot task is COMPLETED and is no longer in the table when update returns.
C29_FailureContained ==
    [][ /\ \A id \in TaskIds :
              (InvokedNow(id) /\ g_passLog'[Len(g_passLog')].threw)
              => LET it == findTask(m_tasks, id)
                     it2 == findTask(m_tasks', id)
                 IN  /\ u_pc' = "loop"
                     /\ it2 # 0
                     /\ m_tasks'[it2].executionCount = m_tasks[it].executionCount + 1
                     /\ m_tasks[it].period > 0
                        => /\ m_tasks'[it2].state = "READY"
                           /\ U32Since(m_tasks'[it2].nextExecution, now') = m_tasks[it].period
                           /\ U32Since(m_tasks'[it2].nextExecution, u_currentTime)
                                 >= m_tasks[it].period
                     /\ m_tasks[it].period = 0 => m_tasks'[it2].state = "COMPLETED"
        /\ (u_pc = "loop" /\ u_pc' = "idle" /\ \E k \in 1..Len(g_passLog) : g_passLog[k].threw)
           => /\ \/ U32Since(now, u_currentTime) > FrameBudget
                 \/ \A i \in 1..Len(m_tasks) :
                       IsDue(m_tasks[i], u_currentTime) => m_tasks[i].id \in PassIds
              /\ \A k \in 1..Len(g_passLog) :
                    (g_passLog[k].threw /\ g_passLog[k].period = 0)
                    => findTask(m_tasks', g_passLog[k].id) = 0 ]_vars

\* a pass in which the callback of the first task threw and a second task was
\* executed after it
C29_Witness ==
    /\ u_pc = "loop"
    /\ Len(g_passLog) = 2
    /\ g_passLog[1].threw
    /\ ~g_passLog[2].threw
    /\ g_passLog[1].id # g_passLog[2].id
    /\ g_passLog[1].period > 0

\* a step in which scheduleOnce or schedulePeriodic has added a task
ScheduleSucceeded ==
    /\ Len(m_tasks') = Len(m_tasks) + 1
    /\ SubSeq(m_tasks', 1, Len(m_tasks)) = m_tasks

\* what the call of that step returned: task.id of the task it pushed (lines 106, 135)
ScheduleReturned == m_tasks'[Len(m_tasks')].id

\* C30: scheduleOnce and schedulePeriodic add no task (and return 0) when the table
\* holds OS_MAX_TASKS tasks, the table never holds more than OS_MAX_TASKS tasks, and
\* a call that adds a task returns an id other than 0.
C30_CapacityAndIds ==
    [][ /\ Len(m_tasks) >= OS_MAX_TASKS => ~ScheduleSucceeded
        /\ Len(m_tasks') <= OS_MAX_TASKS
        /\ ScheduleSucceeded => ScheduleReturned # 0 ]_vars

\* the first two parts of C30 alone: no task is added to a full table, and the
\* table never holds more than OS_MAX_TASKS tasks
C30_NeverOverCapacity ==
    [][ /\ Len(m_tasks) >= OS_MAX_TASKS => ~ScheduleSucceeded
        /\ Len(m_tasks') <= OS_MAX_TASKS ]_vars

\* the table is full and was full before a task was cancelled and one more scheduled
C30_Full ==
    /\ Len(m_tasks) = OS_MAX_TASKS
    /\ m_nextTaskId = OS_MAX_TASKS + 1

\* ids are not 0 before the counter wraps
C30_NonZeroBeforeWrap ==
    [][ (ScheduleSucceeded /\ m_nextTaskId >= 0) => ScheduleReturned # 0 ]_vars

(***************************************************************************)
(* Further claims about the Memory Manager                                 *)
(***************************************************************************)

\* the step is an allocate call that returned a pointer
AllocateSucceeded == m_allocationCount' = m_allocationCount + 1

\* the pools whose blocks are large enough for size and that have a block not
\* in use before the call
PoolsWithRoom(size) ==
    {p \in 1..NumPools : /\ size <= PoolBlockSize[p]
                         /\ \E i \in DOMAIN m_pools[p].blockUsed : ~m_pools[p].blockUsed[i]}

\* C31: allocate(s) with 1 <= s <= 1024 returns a block of the pool with the
\* smallest block size >= s among the pools that have a free block; it returns an
\* address of the general heap only when there is no such pool or s > 1024.
C31_SmallestFittingPool ==
    [][ AllocateSucceeded
        => LET size == g_memCall'.size
               ptr == g_memCall'.ptr
               room == PoolsWithRoom(size)
           IN  /\ size >= 1
               /\ (size <= 1024 /\ room # {})
                  => /\ ptr.pool \in room
                     /\ \A q \in room : PoolBlockSize[ptr.pool] <= PoolBlockSize[q]
                     /\ ~m_pools[ptr.pool].blockUsed[ptr.idx]
               /\ ptr.pool = 0 => (size > 1024 \/ room = {}) ]_vars

\* a request of 100 bytes was served from the general heap, the 256-byte and the
\* 1024-byte pool being full, while the 16-byte and the 64-byte pool have free blocks
C31_Witness ==
    /\ g_memCall.op = "allocate" /\ g_memCall.ret
    /\ g_memCall.size = 100
    /\ g_memCall.ptr.pool = 0
    /\ m_pools[1].freeBlocks > 0 /\ m_pools[2].freeBlocks > 0
    /\ m_pools[3].freeBlocks = 0 /\ m_pools[4].freeBlocks = 0

\* C32: an allocate that returns a pointer appends exactly one MemoryBlock, for
\* that address and the requested size, to the registry; an allocate that returns
\* null (no pool and no heap memory for the request, or size 0) changes neither the
\* registry, the byte totals, the counters nor the pools' bitmaps.
C32_TrackedOrUntouched ==
    [][ g_memCall'.op = "allocate"
        => IF g_memCall'.ptr # NULL
           THEN /\ g_memCall'.ret
                /\ Len(m_activeBlocks') = Len(m_activeBlocks) + 1
                /\ SubSeq(m_activeBlocks', 1, Len(m_activeBlocks)) = m_activeBlocks
                /\ m_activeBlocks'[Len(m_activeBlocks')].ptr = g_memCall'.ptr
                /\ m_activeBlocks'[Len(m_activeBlocks')].size = g_memCall'.size
                /\ m_activeBlocks'[Len(m_activeBlocks')].inUse
           ELSE UNCHANGED <<m_activeBlocks, m_totalAllocated, m_peakAllocated,
                            m_allocationCount, m_deallocationCount, m_pools>> ]_vars

\* an allocate of 2000 bytes found no heap memory and returned null while blocks of
\* a pool and of the heap are tracked
C32_Witness ==
    /\ g_memCall.op = "allocate" /\ g_memCall.ptr = NULL
    /\ g_memCall.size = 2000
    /\ \E i \in 1..Len(m_activeBlocks) : m_activeBlocks[i].ptr.pool # 0
    /\ \E i \in 1..Len(m_activeBlocks) : m_activeBlocks[i].ptr.pool = 0

(***************************************************************************)
(* Claims about the kernel tick (checked under KernelSpec)                 *)
(***************************************************************************)

\* the place of a thing done in a tick in the order the tick has to keep
TickRank(what) ==
    CASE what = "task" -> 1
      [] what = "pass" -> 2
      [] what = "event" -> 3
      [] what = "drain" -> 4
      [] what = "update" -> 5
      [] what = "cleanup" -> 6
      [] what = "limits" -> 7
      [] what = "done" -> 8

DoneBefore(what, j) == \E i \in 1..(j - 1) : g_tick[i] = what

\* C33: in every tick the task callbacks run before TaskScheduler::update returns,
\* events are delivered from the queue only after that and before processEvents
\* returns, an application's update() is called only after processEvents has
\* returned, and the cleanup of stopped apps, followed by the enforcement of the
\* resource limits, runs only after the last update() of the tick.
C33_TickOrder ==
    /\ \A i, j \in 1..Len(g_tick) : i < j => TickRank(g_tick[i]) <= TickRank(g_tick[j])
    /\ \A j \in 1..Len(g_tick) :
          /\ TickRank(g_tick[j]) >= 3 => DoneBefore("pass", j)
          /\ TickRank(g_tick[j]) >= 5 => DoneBefore("drain", j)
          /\ g_tick[j] = "limits" => g_tick[j - 1] = "cleanup"

\* a tick has run a task, delivered an event, updated two applications and done
\* the periodic maintenance
C33_Witness ==
    /\ k_pc = "idle"
    /\ \E i \in 1..Len(g_tick) : g_tick[i] = "task"
    /\ \E i \in 1..Len(g_tick) : g_tick[i] = "event"
    /\ \E i, j \in 1..Len(g_tick) : i < j /\ g_tick[i] = "update" /\ g_tick[j] = "update"
    /\ \E i \in 1..Len(g_tick) : g_tick[i] = "limits"
    /\ g_tick[Len(g_tick)] = "done"

(***************************************************************************)
(* Further claims about the Application Manager (CeilingSpec)              *)
(***************************************************************************)

\* C34: while setMaxConcurrentApps is not called, the running set never holds more
\* entries than m_maxConcurrentApps, whatever registerApp, launchApp, killApp,
\* pauseApp, resumeApp, switchToApp and update calls are made.
C34_RunningSetWithinCeiling == Cardinality(DOMAIN m_runningApps) <= m_maxConcurrentApps

\* launchApp was refused as busy with the running set at a ceiling of 2, after an
\* update pass has called the update() of an app
C34_Witness ==
    /\ m_maxConcurrentApps = 2
    /\ Cardinality(DOMAIN m_runningApps) = m_maxConcurrentApps
    /\ g_appCall.op = "launchApp" /\ g_appCall.ret = "OS_ERROR_BUSY"
    /\ g_updated # {}

(***************************************************************************)
(* Callbacks that cancel and schedule tasks (CancellingSpec)               *)
(***************************************************************************)

\* what the execution of a task changes of it
BookkeepingOf(tasks, id) ==
    LET it == findTask(tasks, id)
    IN  [executionCount |-> tasks[it].executionCount,
         actualRunTime |-> tasks[it].actualRunTime,
         nextExecution |-> tasks[it].nextExecution,
         state |-> tasks[it].state]

\* C35: the step that invokes the callback of a task leaves the execution count, the
\* run time, the nextExecution and the state of every other task as they were, also
\* when the callback calls cancelTask, scheduleOnce or schedulePeriodic; and the
\* cleanup that ends the pass removes only tasks whose callback the pass invoked.
C35_BookkeepingOfInvokedOnly ==
    [][ /\ \A id \in TaskIds :
              InvokedNow(id)
              => \A other \in TaskIds \ {id} :
                    (findTask(m_tasks, other) # 0 /\ findTask(m_tasks', other) # 0)
                    => BookkeepingOf(m_tasks', other) = BookkeepingOf(m_tasks, other)
        /\ (u_pc = "loop" /\ u_pc' = "idle")
           => \A i \in 1..Len(m_tasks) :
                 findTask(m_tasks', m_tasks[i].id) = 0 => m_tasks[i].id \in PassIds ]_vars

\* the second part alone
C35_RemovedOnlyAfterCallback ==
    [][ (u_pc = "loop" /\ u_pc' = "idle")
        => \A i \in 1..Len(m_tasks) :
              findTask(m_tasks', m_tasks[i].id) = 0 => m_tasks[i].id \in PassIds ]_vars

\* C36: under any sequence of allocate, deallocate, allocateFromPool and
\* deallocateFromPool no two entries of the registry m_activeBlocks have the same
\* address, and the address of a tracked block is never a pool block marked free.
C36_RegistryAddressesDistinct ==
    /\ \A i, j \in 1..Len(m_activeBlocks) :
          i # j => m_activeBlocks[i].ptr # m_activeBlocks[j].ptr
    /\ \A i \in 1..Len(m_activeBlocks) :
          m_activeBlocks[i].ptr.pool # 0
          => m_pools[m_activeBlocks[i].ptr.pool].blockUsed[m_activeBlocks[i].ptr.idx]

\* the first part alone
C36_NoAddressTwice ==
    \A i, j \in 1..Len(m_activeBlocks) :
       i # j => m_activeBlocks[i].ptr # m_activeBlocks[j].ptr

(***************************************************************************)
(* Further claims about the Task Scheduler (SchedSpec)                     *)
(***************************************************************************)

\* C37: the callbacks one pass of update has invoked are callbacks of different
\* tasks: no task is executed twice in a pass, whatever its period and however long
\* the callbacks of the pass ran.
C37_OncePerPass ==
    \A k, l \in 1..Len(g_passLog) : k # l => g_passLog[k].id # g_passLog[l].id

\* a pass has come to its end after it has executed a task that is READY and due
\* again by the test of the loop
C37_Witness ==
    /\ u_pc = "loop"
    /\ DuePositions = {}
    /\ \E i \in 1..Len(m_tasks) :
          /\ m_tasks[i].id \in PassIds
          /\ IsDue(m_tasks[i], u_currentTime)

\* C38: no callback is invoked before the delay (for a re-armed task: the period)
\* has elapsed since the task was scheduled (re-armed): every execution of a pass
\* found the whole wait of its task elapsed on the 32-bit millisecond clock.
C38_NeverBeforeDeadline ==
    \A i \in 1..Len(g_passLog) : ~g_passLog[i].early

(***************************************************************************)
(* Further claims about the Event System (ListenerLimitSpec)               *)
(***************************************************************************)

RECURSIVE ListenersOf(_)
\* the number of listeners registered for the event types of a set
ListenersOf(types) ==
    IF types = {} THEN 0
    ELSE LET t == CHOOSE u \in types : TRUE
         IN  Len(m_listeners[t]) + ListenersOf(types \ {t})

\* C39: under any sequence of subscribe, unsubscribe and unsubscribeAll the number
\* of registered listeners, all event types together, never exceeds
\* OS_MAX_EVENT_LISTENERS.
C39_ListenersWithinMaximum == ListenersOf(EventTypes) <= OS_MAX_EVENT_LISTENERS

=========================================================================
